---- MODULE Spec2Model ----
(***************************************************************************)
(* Model of the FarmServer request handlers of tania-core                  *)
(* (src/assets/server/farm_server.go) over the three aggregate             *)
(* repositories (Farm, Reservoir, Area).                                   *)
(*                                                                         *)
(* A handler is a sequential piece of Go code that blocks on every         *)
(* repository call (`<-s.Repo.Op(...)`).  One action of the model runs a   *)
(* handler from the completion of the repository call it is blocked on to  *)
(* the next repository call it issues (or to its return), so the states of *)
(* the model are exactly the points where a handler is suspended.          *)
(* The domain package, the request validators and the repositories are not *)
(* part of the sources at hand; they are modelled from the specification.  *)
(***************************************************************************)
EXTENDS Integers, Sequences, FiniteSets, TLC

\* ------------------------------------------------------------------ bounds
MaxFarms == 1
MaxReservoirs == 1
MaxAreas == 1
MaxNotes == 2
MaxMaterials == 1

\* Request slots.  Spec uses one slot (handlers run one at a time).
Procs == {"h1", "h2"}
SeqProcs == {"h1"}

FarmIds == 1..MaxFarms
ReservoirIds == 1..MaxReservoirs
AreaIds == 1..MaxAreas
NoteIds == 1..MaxNotes

\* ------------------------------------------------------------------ errors
Err(kind, field) == [kind |-> kind, field |-> field]
NoError == Err("NONE", "")
\* A repository completing with a storage failure.
StorageError(repo) == Err("STORAGE", repo)
\* findById on a repository that holds no record with the id.
RepoNotFound(repo) == Err("NOT_FOUND", repo)
\* echo.NewHTTPError(http.StatusInternalServerError, "Internal server error")
InternalServerError == Err("HTTP_500", "Internal server error")
\* echo.NewHTTPError(http.StatusBadRequest, "Internal server error")
BadRequestError == Err("HTTP_400", "Internal server error")
\* NewRequestValidationError(kind, field)
NewRequestValidationError(kind, field) == Err(kind, field)

\* ------------------------------------------------------------ zero values
NoWaterSource == [type |-> "", capacity |-> 0, volume |-> 0]
ZeroReservoir ==
    [UID |-> 0, name |-> "", farmUID |-> 0, waterSource |-> NoWaterSource, notes |-> {}]
ZeroArea ==
    [UID |-> 0, name |-> "", type |-> "", farmUID |-> 0, reservoirUID |-> 0,
     size |-> [value |-> 0, unit |-> ""], location |-> "", photo |-> "", notes |-> {}]
ZeroFarm ==
    [UID |-> 0, name |-> "", type |-> "", reservoirs |-> << >>, areas |-> << >>]

\* ---------------------------------------------------------------- helpers
SeqIds(s) == {s[i].UID : i \in 1..Len(s)}
NoteIdsOf(x) == {n.id : n \in x.notes}

\* strconv.ParseFloat as the validators use it: the text of a number or a failure.
ParseFloat(text) ==
    CASE text = "50" -> [ok |-> TRUE, value |-> 50]
      [] text = "10" -> [ok |-> TRUE, value |-> 10]
      [] text = "-5" -> [ok |-> TRUE, value |-> 0 - 5]
      [] OTHER -> [ok |-> FALSE, value |-> 0]

\* ------------------------------------------------------ repository port
\* RepositoryResult{Result, Error} of findById; `fault` is a storage failure.
FindByID(store, zero, repo, id, fault) ==
    IF fault THEN [Error |-> StorageError(repo), Result |-> zero]
    ELSE IF \E x \in store : x.UID = id
         THEN [Error |-> NoError, Result |-> CHOOSE x \in store : x.UID = id]
         ELSE [Error |-> RepoNotFound(repo), Result |-> zero]

\* The table after save(aggregate): the record stored under its id is replaced.
Save(store, x) == {y \in store : y.UID # x.UID} \cup {x}

\* ------------------------------------------------------ domain: notes
\* AddNewNote(content): a note with a fresh id is added.
AddNewNote(x, content, freshId) ==
    [x EXCEPT !.notes = @ \cup {[id |-> freshId, content |-> content]}]

\* RemoveNote(id): NOT_FOUND when the aggregate holds no note with the id.
RemoveNote(x, noteId) ==
    IF noteId \in NoteIdsOf(x)
    THEN [err |-> NoError, value |-> [x EXCEPT !.notes = {n \in @ : n.id # noteId}]]
    ELSE [err |-> Err("NOT_FOUND", "note"), value |-> x]

\* ------------------------------------------------------ domain: Farm
\* CreateFarm(name, farmType), ChangeGeoLocation, ChangeRegion.
FarmTypes == {"organic"}
CreateFarm(uid, name, farmType) ==
    IF name = "" THEN [err |-> Err("REQUIRED", "name"), value |-> ZeroFarm]
    ELSE IF farmType \notin FarmTypes
         THEN [err |-> Err("INVALID_OPTION", "farm_type"), value |-> ZeroFarm]
         ELSE [err |-> NoError,
               value |-> [ZeroFarm EXCEPT !.UID = uid, !.name = name, !.type = farmType]]

ChangeGeoLocation(latitude, longitude) ==
    IF ParseFloat(latitude).ok /\ ParseFloat(longitude).ok
    THEN NoError ELSE Err("PARSE_FAILED", "geolocation")

ChangeRegion(countryCode, cityCode) ==
    IF countryCode = "ID" /\ cityCode = "JK" THEN NoError
    ELSE Err("INVALID_OPTION", "region")

\* AddReservoir / AddArea: append a mirror, fail when the id is already mirrored.
AddReservoir(farm, r) ==
    IF r.UID \in SeqIds(farm.reservoirs)
    THEN [err |-> Err("INVALID_OPTION", "reservoir"), value |-> farm]
    ELSE [err |-> NoError, value |-> [farm EXCEPT !.reservoirs = Append(@, r)]]

AddArea(farm, a) ==
    IF a.UID \in SeqIds(farm.areas)
    THEN [err |-> Err("INVALID_OPTION", "area"), value |-> farm]
    ELSE [err |-> NoError, value |-> [farm EXCEPT !.areas = Append(@, a)]]

\* ChangeReservoirInformation / ChangeAreaInformation: replace the mirror with the
\* same id, NOT_FOUND when the farm mirrors no such id.
ChangeReservoirInformation(farm, r) ==
    IF r.UID \in SeqIds(farm.reservoirs)
    THEN [err |-> NoError,
          value |-> [farm EXCEPT !.reservoirs =
                        [i \in 1..Len(@) |-> IF @[i].UID = r.UID THEN r ELSE @[i]]]]
    ELSE [err |-> Err("NOT_FOUND", "farm.reservoir"), value |-> farm]

ChangeAreaInformation(farm, a) ==
    IF a.UID \in SeqIds(farm.areas)
    THEN [err |-> NoError,
          value |-> [farm EXCEPT !.areas =
                        [i \in 1..Len(@) |-> IF @[i].UID = a.UID THEN a ELSE @[i]]]]
    ELSE [err |-> Err("NOT_FOUND", "farm.area"), value |-> farm]

\* ------------------------------------------------------ domain: Reservoir
BucketType == "bucket"
TapType == "tap"

CreateReservoir(uid, farm, name) ==
    IF name = "" THEN [err |-> Err("REQUIRED", "name"), value |-> ZeroReservoir]
    ELSE [err |-> NoError,
          value |-> [ZeroReservoir EXCEPT !.UID = uid, !.name = name, !.farmUID = farm.UID]]

CreateBucket(capacity, volume) ==
    IF capacity < 0 \/ volume > capacity
    THEN [err |-> Err("INVALID_OPTION", "capacity"), value |-> NoWaterSource]
    ELSE [err |-> NoError,
          value |-> [type |-> BucketType, capacity |-> capacity, volume |-> volume]]

CreateTap == [err |-> NoError, value |-> [type |-> TapType, capacity |-> 0, volume |-> 0]]

AttachBucket(r, b) == [r EXCEPT !.waterSource = b]
AttachTap(r, t) == [r EXCEPT !.waterSource = t]

\* ------------------------------------------------------ domain: Area
AreaTypes == {"seeding", "growing"}
AllowedUnits(areaType) == IF areaType = "seeding" THEN {"m2"} ELSE {"m2", "hectare"}

CreateArea(uid, farm, name, areaType) ==
    IF name = "" THEN [err |-> Err("REQUIRED", "name"), value |-> ZeroArea]
    ELSE IF areaType \notin AreaTypes
         THEN [err |-> Err("INVALID_OPTION", "type"), value |-> ZeroArea]
         ELSE [err |-> NoError,
               value |-> [ZeroArea EXCEPT !.UID = uid, !.name = name, !.type = areaType,
                                          !.farmUID = farm.UID]]

ChangeSize(a, size) ==
    IF size.unit \in AllowedUnits(a.type)
    THEN [err |-> NoError, value |-> [a EXCEPT !.size = size]]
    ELSE [err |-> Err("INVALID_OPTION", "size_unit"), value |-> a]

ChangeLocation(a, location) ==
    IF location = "" THEN [err |-> Err("REQUIRED", "location"), value |-> a]
    ELSE [err |-> NoError, value |-> [a EXCEPT !.location = location]]

\* ------------------------------------------------------ domain: Material
\* A pointer-typed optional field: nil, or a value.
Nil(zero) == [set |-> FALSE, value |-> zero]
Ptr(v) == [set |-> TRUE, value |-> v]

NoDate == [year |-> 0, month |-> 0, day |-> 0]
NoMaterialType == [code |-> "", detail |-> ""]
ZeroMaterial ==
    [UID |-> 0, name |-> "", pricePerUnit |-> [amount |-> 0, currencyCode |-> ""],
     type |-> NoMaterialType, quantity |-> [value |-> 0, unit |-> ""],
     expirationDate |-> Nil(NoDate), notes |-> Nil(""), producedBy |-> Nil(""),
     isExpense |-> Nil(FALSE)]

\* The lookup tables of the secondary codes, and get(code): the entry or nothing.
PlantTypes == {"vegetable"}
ChemicalTypes == {"pesticide"}
ContainerTypes == {"tray"}
CurrencyCodes == {"IDR"}
GetPlantType(code) == IF code \in PlantTypes THEN code ELSE ""
GetChemicalType(code) == IF code \in ChemicalTypes THEN code ELSE ""
GetContainerType(code) == IF code \in ContainerTypes THEN code ELSE ""

\* The seven category codes.
MaterialTypeSeedCode == "seed"
MaterialTypeAgrochemicalCode == "agrochemical"
MaterialTypeGrowingMediumCode == "growing_medium"
MaterialTypeLabelAndCropSupportCode == "label_and_crop_support"
MaterialTypeSeedingContainerCode == "seeding_container"
MaterialTypePostHarvestSupplyCode == "post_harvest_supply"
MaterialTypeOtherCode == "other"
MaterialTypeCodes ==
    {MaterialTypeSeedCode, MaterialTypeAgrochemicalCode, MaterialTypeGrowingMediumCode,
     MaterialTypeLabelAndCropSupportCode, MaterialTypeSeedingContainerCode,
     MaterialTypePostHarvestSupplyCode, MaterialTypeOtherCode}

\* The variants with a secondary code: built only from a code of the lookup table.
CreateMaterialTypeSeed(code) ==
    IF code \in PlantTypes
    THEN [err |-> NoError, value |-> [code |-> MaterialTypeSeedCode, detail |-> code]]
    ELSE [err |-> Err("INVALID_OPTION", "plant_type"), value |-> NoMaterialType]
CreateMaterialTypeAgrochemical(code) ==
    IF code \in ChemicalTypes
    THEN [err |-> NoError, value |-> [code |-> MaterialTypeAgrochemicalCode, detail |-> code]]
    ELSE [err |-> Err("INVALID_OPTION", "chemical_type"), value |-> NoMaterialType]
CreateMaterialTypeSeedingContainer(code) ==
    IF code \in ContainerTypes
    THEN [err |-> NoError,
          value |-> [code |-> MaterialTypeSeedingContainerCode, detail |-> code]]
    ELSE [err |-> Err("INVALID_OPTION", "container_type"), value |-> NoMaterialType]
\* The variants without one.
PlainMaterialType(code) == [code |-> code, detail |-> ""]

\* time.Parse("2006-01-02", text): the date the text denotes, or a failure.
ParseDate(text) ==
    CASE text = "2026-12-31" -> [ok |-> TRUE, value |-> [year |-> 2026, month |-> 12, day |-> 31]]
      [] OTHER -> [ok |-> FALSE, value |-> NoDate]

\* The transition records of a Material (material_events.go).
MaterialCreated(m) ==
    [kind |-> "MaterialCreated", UID |-> m.UID, Name |-> m.name,
     PricePerUnit |-> m.pricePerUnit, Type |-> m.type, Quantity |-> m.quantity,
     ExpirationDate |-> m.expirationDate, Notes |-> m.notes, ProducedBy |-> m.producedBy]
MaterialChangedKinds ==
    {"MaterialNameChanged", "MaterialPriceChanged", "MaterialQuantityChanged",
     "MaterialTypeChanged", "MaterialExpirationDateChanged", "MaterialNotesChanged",
     "MaterialProducedByChanged"}

\* create(name, pricePerUnit, type, quantity, unit): the Material and the record of
\* its creation, or a failure.  What it does with no type at all (the handler's
\* switch matched no category) is not known: `typeless` is whether it accepts it.
CreateMaterial(uid, name, price, currencyCode, mt, q, unit, typeless) ==
    LET amount == ParseFloat(price)
        m == [ZeroMaterial EXCEPT !.UID = uid, !.name = name,
                                  !.pricePerUnit = [amount |-> amount.value,
                                                    currencyCode |-> currencyCode],
                                  !.type = mt, !.quantity = [value |-> q, unit |-> unit]]
        failed(e) == [err |-> e, value |-> ZeroMaterial, records |-> << >>]
    IN  IF name = "" THEN failed(Err("REQUIRED", "name"))
        ELSE IF ~amount.ok THEN failed(Err("PARSE_FAILED", "price_per_unit"))
        ELSE IF amount.value < 0 THEN failed(Err("INVALID_OPTION", "price_per_unit"))
        ELSE IF currencyCode \notin CurrencyCodes
             THEN failed(Err("INVALID_OPTION", "currency_code"))
        ELSE IF mt = NoMaterialType /\ ~typeless THEN failed(Err("INVALID_OPTION", "type"))
        ELSE IF q < 0 THEN failed(Err("INVALID_OPTION", "quantity"))
        ELSE [err |-> NoError, value |-> m, records |-> <<MaterialCreated(m)>>]

\* One step of the replay of a Material's records.
ApplyRecord(m, rec) ==
    CASE rec.kind = "MaterialCreated" ->
            [ZeroMaterial EXCEPT !.UID = rec.UID, !.name = rec.Name,
                                 !.pricePerUnit = rec.PricePerUnit, !.type = rec.Type,
                                 !.quantity = rec.Quantity,
                                 !.expirationDate = rec.ExpirationDate,
                                 !.notes = rec.Notes, !.producedBy = rec.ProducedBy]
      [] rec.kind = "MaterialNameChanged" -> [m EXCEPT !.name = rec.Name]
      [] rec.kind = "MaterialPriceChanged" -> [m EXCEPT !.pricePerUnit = rec.Price]
      [] rec.kind = "MaterialQuantityChanged" -> [m EXCEPT !.quantity = rec.Quantity]
      [] rec.kind = "MaterialTypeChanged" -> [m EXCEPT !.type = rec.MaterialType]
      [] rec.kind = "MaterialExpirationDateChanged" ->
            [m EXCEPT !.expirationDate = Ptr(rec.ExpirationDate)]
      [] rec.kind = "MaterialNotesChanged" -> [m EXCEPT !.notes = Ptr(rec.Notes)]
      [] rec.kind = "MaterialProducedByChanged" ->
            [m EXCEPT !.producedBy = Ptr(rec.ProducedBy)]

\* The state a sequence of records replays to, in creation order.
RECURSIVE FoldRecords(_, _)
FoldRecords(m, records) ==
    IF records = << >> THEN m
    ELSE FoldRecords(ApplyRecord(m, Head(records)), Tail(records))

\* The records of one Material in a log.
RecordsOf(log, uid) ==
    SelectSeq(log, LAMBDA rec : IF rec.kind = "MaterialCreated" THEN rec.UID = uid
                                ELSE rec.MaterialUID = uid)

\* ------------------------------------------------------ request validators
ValidateReservoirName(name) ==
    IF name = "" THEN Err("REQUIRED", "name") ELSE NoError

ValidateType(t) ==
    IF t \in {BucketType, TapType} THEN NoError ELSE Err("INVALID_OPTION", "type")

\* capacity: numeric, required and >= 0 only when the type is bucket.
ValidateCapacity(waterSourceType, capacity) ==
    IF waterSourceType # BucketType THEN [err |-> NoError, value |-> 0]
    ELSE IF capacity = "" THEN [err |-> Err("REQUIRED", "capacity"), value |-> 0]
    ELSE IF ~ParseFloat(capacity).ok
         THEN [err |-> Err("PARSE_FAILED", "capacity"), value |-> 0]
    ELSE IF ParseFloat(capacity).value < 0
         THEN [err |-> Err("INVALID_OPTION", "capacity"), value |-> 0]
    ELSE [err |-> NoError, value |-> ParseFloat(capacity).value]

ValidateAreaSize(size, sizeUnit) ==
    IF ~ParseFloat(size).ok
    THEN [err |-> Err("PARSE_FAILED", "size"), value |-> ZeroArea.size]
    ELSE IF sizeUnit \notin {"m2", "hectare"}
         THEN [err |-> Err("INVALID_OPTION", "size_unit"), value |-> ZeroArea.size]
         ELSE [err |-> NoError, value |-> [value |-> ParseFloat(size).value, unit |-> sizeUnit]]

ValidateAreaLocation(location) ==
    IF location = "" THEN Err("REQUIRED", "location") ELSE NoError

\* ------------------------------------------------------------------ state
VARIABLES
    farmStore,          \* FarmRepo's table: a set of Farm records
    reservoirStore,     \* ReservoirRepo's table
    areaStore,          \* AreaRepo's table
    nextFarmUID,        \* the next fresh uuid of each kind
    nextReservoirUID,
    nextAreaUID,
    nextNoteUID,
    materialStore,      \* MaterialRepo's table
    materialLog,        \* the transition records of the Materials, in creation order
    nextMaterialUID,
    proc,               \* per request slot: the handler running in it and its locals
    repoFailed          \* history: some repository call has completed with an error

vars == <<farmStore, reservoirStore, areaStore, nextFarmUID, nextReservoirUID,
          nextAreaUID, nextNoteUID, materialStore, materialLog, nextMaterialUID,
          proc, repoFailed>>

stores == <<farmStore, reservoirStore, areaStore>>
uids == <<nextFarmUID, nextReservoirUID, nextAreaUID, nextNoteUID>>
\* What belongs to the Material aggregate: its table, its log, its ids.
material == <<materialStore, materialLog, nextMaterialUID>>

\* The tables as one value (what a request finds when it starts).
Tables ==
    [farms |-> farmStore, reservoirs |-> reservoirStore, areas |-> areaStore,
     materials |-> materialStore, log |-> materialLog]
NoTables == [farms |-> {}, reservoirs |-> {}, areas |-> {}, materials |-> {}, log |-> << >>]

\* The request parameters (c.Param / c.FormValue); a handler reads some of them.
NoInput ==
    [id |-> 0, reservoirId |-> 0, noteId |-> 0, content |-> "", name |-> "", type |-> "",
     capacity |-> "", size |-> "", sizeUnit |-> "", location |-> "", photo |-> "",
     farmType |-> "", latitude |-> "", longitude |-> "", countryCode |-> "",
     cityCode |-> "", plantType |-> "", chemicalType |-> "", containerType |-> "",
     pricePerUnit |-> "", currencyCode |-> "", quantity |-> "", quantityUnit |-> "",
     expirationDate |-> "", notes |-> "", isExpense |-> "", producedBy |-> ""]

\* A request slot with no handler in it.
IdleProc ==
    [h |-> "", pc |-> "idle", stage |-> "", in |-> NoInput,
     reservoir |-> ZeroReservoir, area |-> ZeroArea, farm |-> ZeroFarm,
     material |-> ZeroMaterial, mt |-> NoMaterialType, records |-> << >>,
     createCalled |-> FALSE, overlaps |-> {},
     err |-> NoError, calls |-> << >>, repoErr |-> NoError, syncErr |-> NoError,
     built |-> FALSE, snap |-> NoTables]

\* The slots in which a handler is running.
Running == {q \in Procs : proc[q].pc \notin {"idle", "done"}}

\* A handler is entered with its parameters (history: `overlaps` is the requests it
\* runs at the same time as, the ones that are running when it is entered).
Enter(h, in) ==
    [IdleProc EXCEPT !.h = h, !.in = in, !.stage = "validate", !.snap = Tables,
                     !.overlaps = Running]

\* `<-repo.op(...)`: the call is issued and the handler blocks on its completion.
Issue(pr, repo, op) ==
    [pr EXCEPT !.pc = repo \o "." \o op,
               !.calls = Append(@, [repo |-> repo, op |-> op, status |-> "pending"])]

\* The pending call delivers its single completion: a value (NoError) or an error.
Complete(pr, error) ==
    [pr EXCEPT !.calls[Len(pr.calls)].status = IF error = NoError THEN "ok" ELSE "error",
               !.repoErr = IF error = NoError THEN @ ELSE error]

\* `return Error(c, err)` / `return c.JSON(http.StatusOK, data)` (err = NoError).
Return(pr, err) == [pr EXCEPT !.pc = "done", !.err = err]

At(p, h, pc) == proc[p].h = h /\ proc[p].pc = pc

\* Handlers in flight that will still draw a fresh id of a kind (bounds the ids).
Drawing(hs, pcs) == Cardinality({q \in Procs : proc[q].h \in hs /\ proc[q].pc \in pcs})

Init ==
    /\ farmStore = {}
    /\ reservoirStore = {}
    /\ areaStore = {}
    /\ nextFarmUID = 1
    /\ nextReservoirUID = 1
    /\ nextAreaUID = 1
    /\ nextNoteUID = 1
    /\ materialStore = {}
    /\ materialLog = << >>
    /\ nextMaterialUID = 1
    /\ proc = [p \in Procs |-> IdleProc]
    /\ repoFailed = FALSE

\* ---------------------------------------------------------------- SaveFarm
\* Lines 116-134: create and validate the Farm, issue FarmRepo.Save.  A form value
\* is part of the request from the start; `in` records it when the handler reads it.
SaveFarmEntry(form, uid) ==
    LET read1 == [NoInput EXCEPT !.name = form.name, !.farmType = form.farmType]
        read2 == [read1 EXCEPT !.latitude = form.latitude, !.longitude = form.longitude]
        read3 == [read2 EXCEPT !.countryCode = form.countryCode, !.cityCode = form.cityCode]
        c == CreateFarm(uid, form.name, form.farmType)
        g == ChangeGeoLocation(form.latitude, form.longitude)
        r == ChangeRegion(form.countryCode, form.cityCode)
        made(in) == [Enter("SaveFarm", in) EXCEPT !.built = TRUE, !.farm = c.value]
    IN  IF c.err # NoError THEN Return(Enter("SaveFarm", read1), c.err)
        ELSE IF g # NoError THEN Return(made(read2), g)
        ELSE IF r # NoError THEN Return(made(read3), r)
        ELSE Issue([made(read3) EXCEPT !.stage = "persist"], "FarmRepo", "Save")

SaveFarm(p) ==
    /\ proc[p].pc = "idle"
    /\ nextFarmUID <= MaxFarms
    /\ \E name \in {"", "F1"}, farmType \in {"organic", "plastic"},
          latitude \in {"north", "10"}, longitude \in {"east", "50"},
          countryCode \in {"ID", "??"}, cityCode \in {"JK", "??"} :
          LET form == [NoInput EXCEPT !.name = name, !.farmType = farmType,
                                      !.latitude = latitude, !.longitude = longitude,
                                      !.countryCode = countryCode, !.cityCode = cityCode]
              pr == SaveFarmEntry(form, nextFarmUID)
          IN  /\ proc' = [proc EXCEPT ![p] = pr]
              /\ nextFarmUID' = IF pr.built THEN nextFarmUID + 1 ELSE nextFarmUID
    /\ UNCHANGED <<stores, nextReservoirUID, nextAreaUID, nextNoteUID, repoFailed, material>>

\* Lines 134-141: FarmRepo.Save completes.
SaveFarmSaved(pr, fault) ==
    IF fault THEN Return(Complete(pr, StorageError("FarmRepo")), StorageError("FarmRepo"))
    ELSE Return(Complete(pr, NoError), NoError)

SaveFarm_Save(p) ==
    /\ At(p, "SaveFarm", "FarmRepo.Save")
    /\ \E fault \in BOOLEAN :
          /\ proc' = [proc EXCEPT ![p] = SaveFarmSaved(proc[p], fault)]
          /\ farmStore' = IF fault THEN farmStore ELSE Save(farmStore, proc[p].farm)
          /\ repoFailed' = (repoFailed \/ fault)
    /\ UNCHANGED <<reservoirStore, areaStore, uids, material>>

\* ----------------------------------------------------------- SaveReservoir
\* Lines 167-183: the name, type and capacity validators, then ValidateFarm is
\* entered and looks the farm up through FarmRepo (ValidateFarm and
\* ValidateReservoir return the error of their lookup).
SaveReservoirEntry(form) ==
    LET read1 == [NoInput EXCEPT !.name = form.name]
        read2 == [read1 EXCEPT !.type = form.type]
        read3 == [read2 EXCEPT !.capacity = form.capacity]
        n == ValidateReservoirName(form.name)
        t == ValidateType(form.type)
        c == ValidateCapacity(form.type, form.capacity)
    IN  IF n # NoError THEN Return(Enter("SaveReservoir", read1), n)
        ELSE IF t # NoError THEN Return(Enter("SaveReservoir", read2), t)
        ELSE IF c.err # NoError THEN Return(Enter("SaveReservoir", read3), c.err)
        ELSE Issue(Enter("SaveReservoir", [read3 EXCEPT !.id = form.id]),
                   "FarmRepo", "FindByID")

SaveReservoir(p) ==
    /\ proc[p].pc = "idle"
    /\ nextReservoirUID + Drawing({"SaveReservoir"}, {"FarmRepo.FindByID"}) <= MaxReservoirs
    /\ \E id \in FarmIds, name \in {"", "R1"}, type \in {"bucket", "tap", "pond"},
          capacity \in {"", "lots", "-5", "50"} :
          proc' = [proc EXCEPT ![p] =
                      SaveReservoirEntry([NoInput EXCEPT !.id = id, !.name = name,
                                                         !.type = type, !.capacity = capacity])]
    /\ UNCHANGED <<stores, uids, repoFailed, material>>

\* The water source lines 194-208 attach to the new reservoir.
WaterSourceOf(waterSourceType, capacity) ==
    IF waterSourceType = BucketType THEN CreateBucket(capacity, 0)
    ELSE IF waterSourceType = TapType THEN CreateTap
    ELSE [err |-> NoError, value |-> NoWaterSource]

\* SaveReservoirProcess with the Farm saved as it was loaded.
SaveReservoirProcess_NotAdded(pr, result, uid) ==
    LET done == Complete(pr, result.Error)
        farm == result.Result
        capacity == ValidateCapacity(pr.in.type, pr.in.capacity).value
        r == CreateReservoir(uid, farm, pr.in.name)
        w == WaterSourceOf(pr.in.type, capacity)
        attached == IF pr.in.type = BucketType THEN AttachBucket(r.value, w.value)
                    ELSE IF pr.in.type = TapType THEN AttachTap(r.value, w.value)
                    ELSE r.value
        a == AddReservoir(farm, attached)
        made == [done EXCEPT !.stage = "process", !.built = TRUE, !.farm = farm]
    IN  IF result.Error # NoError THEN Return(done, result.Error)
        ELSE IF r.err # NoError
             THEN Return([done EXCEPT !.stage = "process", !.farm = farm], r.err)
        ELSE IF w.err # NoError THEN Return([made EXCEPT !.reservoir = r.value], w.err)
        ELSE IF a.err # NoError THEN Return([made EXCEPT !.reservoir = attached], a.err)
        ELSE Issue([made EXCEPT !.reservoir = attached, !.farm = farm,
                                !.stage = "persist"],
                   "ReservoirRepo", "Save")

\* SaveReservoirProcess with no water source attached.
SaveReservoirProcess_NoWaterSource(pr, result, uid) ==
    LET done == Complete(pr, result.Error)
        farm == result.Result
        capacity == ValidateCapacity(pr.in.type, pr.in.capacity).value
        r == CreateReservoir(uid, farm, pr.in.name)
        w == WaterSourceOf(pr.in.type, capacity)
        attached == r.value
        a == AddReservoir(farm, attached)
        made == [done EXCEPT !.stage = "process", !.built = TRUE, !.farm = farm]
    IN  IF result.Error # NoError THEN Return(done, result.Error)
        ELSE IF r.err # NoError
             THEN Return([done EXCEPT !.stage = "process", !.farm = farm], r.err)
        ELSE IF w.err # NoError THEN Return([made EXCEPT !.reservoir = r.value], w.err)
        ELSE IF a.err # NoError THEN Return([made EXCEPT !.reservoir = attached], a.err)
        ELSE Issue([made EXCEPT !.reservoir = attached, !.farm = a.value,
                                !.stage = "persist"],
                   "ReservoirRepo", "Save")

\* Lines 183-216: ValidateFarm completes; the Reservoir is created, gets its water
\* source and is added to the farm; ReservoirRepo.Save is issued.
SaveReservoirProcess(pr, result, uid) ==
    LET done == Complete(pr, result.Error)
        farm == result.Result
        capacity == ValidateCapacity(pr.in.type, pr.in.capacity).value
        r == CreateReservoir(uid, farm, pr.in.name)
        w == WaterSourceOf(pr.in.type, capacity)
        attached == IF pr.in.type = BucketType THEN AttachBucket(r.value, w.value)
                    ELSE IF pr.in.type = TapType THEN AttachTap(r.value, w.value)
                    ELSE r.value
        a == AddReservoir(farm, attached)
        made == [done EXCEPT !.stage = "process", !.built = TRUE, !.farm = farm]
    IN  IF result.Error # NoError THEN Return(done, result.Error)
        ELSE IF r.err # NoError
             THEN Return([done EXCEPT !.stage = "process", !.farm = farm], r.err)
        ELSE IF w.err # NoError THEN Return([made EXCEPT !.reservoir = r.value], w.err)
        ELSE IF a.err # NoError THEN Return([made EXCEPT !.reservoir = attached], a.err)
        ELSE Issue([made EXCEPT !.reservoir = attached, !.farm = a.value,
                                !.stage = "persist"],
                   "ReservoirRepo", "Save")

SaveReservoir_ValidateFarm(p) ==
    /\ At(p, "SaveReservoir", "FarmRepo.FindByID")
    /\ \E fault \in BOOLEAN :
          LET result == FindByID(farmStore, ZeroFarm, "FarmRepo", proc[p].in.id, fault)
              pr == SaveReservoirProcess(proc[p], result, nextReservoirUID)
          IN  /\ proc' = [proc EXCEPT ![p] = pr]
              /\ nextReservoirUID' = IF pr.built THEN nextReservoirUID + 1
                                     ELSE nextReservoirUID
              /\ repoFailed' = (repoFailed \/ result.Error # NoError)
    /\ UNCHANGED <<stores, nextFarmUID, nextAreaUID, nextNoteUID, material>>

\* SaveReservoirSaved with the error of ReservoirRepo.Save not looked at.
SaveReservoirSaved_ErrorIgnored(pr, fault) ==
    Issue(Complete(pr, IF fault THEN StorageError("ReservoirRepo") ELSE NoError),
          "FarmRepo", "Save")

\* Lines 216-221: ReservoirRepo.Save completes; on success FarmRepo.Save is issued.
SaveReservoirSaved(pr, fault) ==
    IF fault
    THEN Return(Complete(pr, StorageError("ReservoirRepo")), StorageError("ReservoirRepo"))
    ELSE Issue(Complete(pr, NoError), "FarmRepo", "Save")

SaveReservoir_SaveReservoir(p) ==
    /\ At(p, "SaveReservoir", "ReservoirRepo.Save")
    /\ \E fault \in BOOLEAN :
          /\ proc' = [proc EXCEPT ![p] = SaveReservoirSaved(proc[p], fault)]
          /\ reservoirStore' = IF fault THEN reservoirStore
                               ELSE Save(reservoirStore, proc[p].reservoir)
          /\ repoFailed' = (repoFailed \/ fault)
    /\ UNCHANGED <<farmStore, areaStore, uids, material>>

\* Lines 221-233: FarmRepo.Save completes; the response is mapped and returned.
SaveReservoirFarmSaved(pr, fault) ==
    IF fault THEN Return(Complete(pr, StorageError("FarmRepo")), StorageError("FarmRepo"))
    ELSE Return([Complete(pr, NoError) EXCEPT !.stage = "respond"], NoError)

SaveReservoir_SaveFarm(p) ==
    /\ At(p, "SaveReservoir", "FarmRepo.Save")
    /\ \E fault \in BOOLEAN :
          /\ proc' = [proc EXCEPT ![p] = SaveReservoirFarmSaved(proc[p], fault)]
          /\ farmStore' = IF fault THEN farmStore ELSE Save(farmStore, proc[p].farm)
          /\ repoFailed' = (repoFailed \/ fault)
    /\ UNCHANGED <<reservoirStore, areaStore, uids, material>>

\* ------------------------------------------------------ SaveReservoirNotes
\* Lines 236-243: the parameters are read and ReservoirRepo.FindByID is issued.
SaveReservoirNotes(p) ==
    /\ proc[p].pc = "idle"
    /\ nextNoteUID + Drawing({"SaveReservoirNotes", "SaveAreaNotes"},
                             {"ReservoirRepo.FindByID", "AreaRepo.FindByID",
                              "FarmRepo.FindByID"}) <= MaxNotes
    /\ \E id \in ReservoirIds, content \in {"", "hello"} :
          proc' = [proc EXCEPT ![p] =
                      Issue(Enter("SaveReservoirNotes",
                                  [NoInput EXCEPT !.id = id, !.content = content]),
                            "ReservoirRepo", "FindByID")]
    /\ UNCHANGED <<stores, uids, repoFailed, material>>

\* SaveReservoirNotesFound answering a failed lookup with a 500, as the saves do.
SaveReservoirNotesFound_Substituted(pr, result) ==
    IF result.Error # NoError THEN Return(Complete(pr, result.Error), InternalServerError)
    ELSE Issue([Complete(pr, NoError) EXCEPT !.reservoir = result.Result],
               "FarmRepo", "FindByID")

\* Lines 243-253: the reservoir is found; FarmRepo.FindByID of its farm is issued.
SaveReservoirNotesFound(pr, result) ==
    IF result.Error # NoError THEN Return(Complete(pr, result.Error), result.Error)
    ELSE Issue([Complete(pr, NoError) EXCEPT !.reservoir = result.Result],
               "FarmRepo", "FindByID")

SaveReservoirNotes_FindReservoir(p) ==
    /\ At(p, "SaveReservoirNotes", "ReservoirRepo.FindByID")
    /\ \E fault \in BOOLEAN :
          LET result == FindByID(reservoirStore, ZeroReservoir, "ReservoirRepo",
                                 proc[p].in.id, fault)
          IN  /\ proc' = [proc EXCEPT ![p] = SaveReservoirNotesFound(proc[p], result)]
              /\ repoFailed' = (repoFailed \/ result.Error # NoError)
    /\ UNCHANGED <<stores, uids, material>>

\* SaveReservoirNotesProcess without the Farm-side synchronisation call.
SaveReservoirNotesProcess_NoSync(pr, result, noteUID) ==
    LET done == Complete(pr, result.Error)
        reservoir == AddNewNote(pr.reservoir, pr.in.content, noteUID)
    IN  IF result.Error # NoError THEN Return(done, result.Error)
        ELSE IF pr.in.content = ""
             THEN Return([done EXCEPT !.farm = result.Result],
                         NewRequestValidationError("REQUIRED", "content"))
        ELSE Issue([done EXCEPT !.stage = "persist", !.built = TRUE,
                                !.reservoir = reservoir, !.farm = result.Result],
                   "ReservoirRepo", "Save")

\* Lines 253-272: the farm is found; the content is checked; the note is added and
\* the farm's mirror replaced (the result of ChangeReservoirInformation is dropped);
\* ReservoirRepo.Save is issued.
SaveReservoirNotesProcess(pr, result, noteUID) ==
    LET done == Complete(pr, result.Error)
        reservoir == AddNewNote(pr.reservoir, pr.in.content, noteUID)
        sync == ChangeReservoirInformation(result.Result, reservoir)
    IN  IF result.Error # NoError THEN Return(done, result.Error)
        ELSE IF pr.in.content = ""
             THEN Return([done EXCEPT !.farm = result.Result],
                         NewRequestValidationError("REQUIRED", "content"))
        ELSE Issue([done EXCEPT !.stage = "persist", !.built = TRUE,
                                !.reservoir = reservoir, !.farm = sync.value,
                                !.syncErr = sync.err],
                   "ReservoirRepo", "Save")

SaveReservoirNotes_FindFarm(p) ==
    /\ At(p, "SaveReservoirNotes", "FarmRepo.FindByID")
    /\ \E fault \in BOOLEAN :
          LET result == FindByID(farmStore, ZeroFarm, "FarmRepo",
                                 proc[p].reservoir.farmUID, fault)
              pr == SaveReservoirNotesProcess(proc[p], result, nextNoteUID)
          IN  /\ proc' = [proc EXCEPT ![p] = pr]
              /\ nextNoteUID' = IF pr.built THEN nextNoteUID + 1 ELSE nextNoteUID
              /\ repoFailed' = (repoFailed \/ result.Error # NoError)
    /\ UNCHANGED <<stores, nextFarmUID, nextReservoirUID, nextAreaUID, material>>

\* Lines 272-277: ReservoirRepo.Save completes; an error is answered with a 500.
SaveReservoirNotesSaved(pr, fault) ==
    IF fault THEN Return(Complete(pr, StorageError("ReservoirRepo")), InternalServerError)
    ELSE Issue(Complete(pr, NoError), "FarmRepo", "Save")

SaveReservoirNotes_SaveReservoir(p) ==
    /\ At(p, "SaveReservoirNotes", "ReservoirRepo.Save")
    /\ \E fault \in BOOLEAN :
          /\ proc' = [proc EXCEPT ![p] = SaveReservoirNotesSaved(proc[p], fault)]
          /\ reservoirStore' = IF fault THEN reservoirStore
                               ELSE Save(reservoirStore, proc[p].reservoir)
          /\ repoFailed' = (repoFailed \/ fault)
    /\ UNCHANGED <<farmStore, areaStore, uids, material>>

\* Lines 277-289: FarmRepo.Save completes.
SaveReservoirNotesFarmSaved(pr, fault) ==
    IF fault THEN Return(Complete(pr, StorageError("FarmRepo")), InternalServerError)
    ELSE Return([Complete(pr, NoError) EXCEPT !.stage = "respond"], NoError)

\* SaveReservoirNotes_SaveFarm undoing the Reservoir write when FarmRepo.Save fails.
SaveReservoirNotes_SaveFarm_RollsBack(p) ==
    /\ At(p, "SaveReservoirNotes", "FarmRepo.Save")
    /\ \E fault \in BOOLEAN :
          /\ proc' = [proc EXCEPT ![p] = SaveReservoirNotesFarmSaved(proc[p], fault)]
          /\ farmStore' = IF fault THEN farmStore ELSE Save(farmStore, proc[p].farm)
          /\ reservoirStore' = IF fault THEN proc[p].snap.reservoirs ELSE reservoirStore
          /\ repoFailed' = (repoFailed \/ fault)
    /\ UNCHANGED <<areaStore, uids, material>>

SaveReservoirNotes_SaveFarm(p) ==
    /\ At(p, "SaveReservoirNotes", "FarmRepo.Save")
    /\ \E fault \in BOOLEAN :
          /\ proc' = [proc EXCEPT ![p] = SaveReservoirNotesFarmSaved(proc[p], fault)]
          /\ farmStore' = IF fault THEN farmStore ELSE Save(farmStore, proc[p].farm)
          /\ repoFailed' = (repoFailed \/ fault)
    /\ UNCHANGED <<reservoirStore, areaStore, uids, material>>

\* ---------------------------------------------------- RemoveReservoirNotes
\* Lines 292-299.
RemoveReservoirNotes(p) ==
    /\ proc[p].pc = "idle"
    /\ \E id \in ReservoirIds, noteId \in NoteIds :
          proc' = [proc EXCEPT ![p] =
                      Issue(Enter("RemoveReservoirNotes",
                                  [NoInput EXCEPT !.id = id, !.noteId = noteId]),
                            "ReservoirRepo", "FindByID")]
    /\ UNCHANGED <<stores, uids, repoFailed, material>>

\* Lines 299-309.
RemoveReservoirNotesFound(pr, result) ==
    IF result.Error # NoError THEN Return(Complete(pr, result.Error), result.Error)
    ELSE Issue([Complete(pr, NoError) EXCEPT !.reservoir = result.Result],
               "FarmRepo", "FindByID")

RemoveReservoirNotes_FindReservoir(p) ==
    /\ At(p, "RemoveReservoirNotes", "ReservoirRepo.FindByID")
    /\ \E fault \in BOOLEAN :
          LET result == FindByID(reservoirStore, ZeroReservoir, "ReservoirRepo",
                                 proc[p].in.id, fault)
          IN  /\ proc' = [proc EXCEPT ![p] = RemoveReservoirNotesFound(proc[p], result)]
              /\ repoFailed' = (repoFailed \/ result.Error # NoError)
    /\ UNCHANGED <<stores, uids, material>>

\* RemoveReservoirNotesProcess dropping the result of RemoveNote.
RemoveReservoirNotesProcess_RemovalUnchecked(pr, result) ==
    LET done == [Complete(pr, result.Error) EXCEPT !.farm = result.Result]
        removed == RemoveNote(pr.reservoir, pr.in.noteId)
        sync == ChangeReservoirInformation(result.Result, removed.value)
    IN  IF result.Error # NoError THEN Return(done, result.Error)
        ELSE IF sync.err # NoError
             THEN Return([done EXCEPT !.stage = "process", !.built = TRUE,
                                      !.reservoir = removed.value, !.syncErr = sync.err],
                         sync.err)
        ELSE Issue([done EXCEPT !.stage = "persist", !.built = TRUE,
                                !.reservoir = removed.value, !.farm = sync.value],
                   "ReservoirRepo", "Save")

\* Lines 309-331: the farm is found; the note is removed and the farm's mirror
\* replaced, either failure returns; ReservoirRepo.Save is issued.
RemoveReservoirNotesProcess(pr, result) ==
    LET done == [Complete(pr, result.Error) EXCEPT !.farm = result.Result]
        removed == RemoveNote(pr.reservoir, pr.in.noteId)
        sync == ChangeReservoirInformation(result.Result, removed.value)
    IN  IF result.Error # NoError THEN Return(done, result.Error)
        ELSE IF removed.err # NoError
             THEN Return([done EXCEPT !.stage = "process"], removed.err)
        ELSE IF sync.err # NoError
             THEN Return([done EXCEPT !.stage = "process", !.built = TRUE,
                                      !.reservoir = removed.value, !.syncErr = sync.err],
                         sync.err)
        ELSE Issue([done EXCEPT !.stage = "persist", !.built = TRUE,
                                !.reservoir = removed.value, !.farm = sync.value],
                   "ReservoirRepo", "Save")

RemoveReservoirNotes_FindFarm(p) ==
    /\ At(p, "RemoveReservoirNotes", "FarmRepo.FindByID")
    /\ \E fault \in BOOLEAN :
          LET result == FindByID(farmStore, ZeroFarm, "FarmRepo",
                                 proc[p].reservoir.farmUID, fault)
          IN  /\ proc' = [proc EXCEPT ![p] = RemoveReservoirNotesProcess(proc[p], result)]
              /\ repoFailed' = (repoFailed \/ result.Error # NoError)
    /\ UNCHANGED <<stores, uids, material>>

\* Lines 331-336.
RemoveReservoirNotesSaved(pr, fault) ==
    IF fault THEN Return(Complete(pr, StorageError("ReservoirRepo")), InternalServerError)
    ELSE Issue(Complete(pr, NoError), "FarmRepo", "Save")

RemoveReservoirNotes_SaveReservoir(p) ==
    /\ At(p, "RemoveReservoirNotes", "ReservoirRepo.Save")
    /\ \E fault \in BOOLEAN :
          /\ proc' = [proc EXCEPT ![p] = RemoveReservoirNotesSaved(proc[p], fault)]
          /\ reservoirStore' = IF fault THEN reservoirStore
                               ELSE Save(reservoirStore, proc[p].reservoir)
          /\ repoFailed' = (repoFailed \/ fault)
    /\ UNCHANGED <<farmStore, areaStore, uids, material>>

\* Lines 336-348.
RemoveReservoirNotesFarmSaved(pr, fault) ==
    IF fault THEN Return(Complete(pr, StorageError("FarmRepo")), InternalServerError)
    ELSE Return([Complete(pr, NoError) EXCEPT !.stage = "respond"], NoError)

RemoveReservoirNotes_SaveFarm(p) ==
    /\ At(p, "RemoveReservoirNotes", "FarmRepo.Save")
    /\ \E fault \in BOOLEAN :
          /\ proc' = [proc EXCEPT ![p] = RemoveReservoirNotesFarmSaved(proc[p], fault)]
          /\ farmStore' = IF fault THEN farmStore ELSE Save(farmStore, proc[p].farm)
          /\ repoFailed' = (repoFailed \/ fault)
    /\ UNCHANGED <<reservoirStore, areaStore, uids, material>>

\* ---------------------------------------------------------------- SaveArea
\* Lines 411-416: ValidateFarm is entered and looks the farm up.
SaveArea(p) ==
    /\ proc[p].pc = "idle"
    /\ nextAreaUID + Drawing({"SaveArea"}, {"FarmRepo.FindByID", "ReservoirRepo.FindByID"})
          <= MaxAreas
    /\ \E id \in FarmIds :
          proc' = [proc EXCEPT ![p] =
                      Issue(Enter("SaveArea", [NoInput EXCEPT !.id = id]),
                            "FarmRepo", "FindByID")]
    /\ UNCHANGED <<stores, uids, repoFailed, material>>

\* Lines 416-421: the farm is found; ValidateReservoir looks up the reservoir the
\* form names.
SaveAreaFarmFound(pr, result, reservoirId) ==
    IF result.Error # NoError THEN Return(Complete(pr, result.Error), result.Error)
    ELSE Issue([Complete(pr, NoError) EXCEPT !.farm = result.Result,
                                             !.in.reservoirId = reservoirId],
               "ReservoirRepo", "FindByID")

SaveArea_ValidateFarm(p) ==
    /\ At(p, "SaveArea", "FarmRepo.FindByID")
    /\ \E fault \in BOOLEAN, reservoirId \in ReservoirIds :
          LET result == FindByID(farmStore, ZeroFarm, "FarmRepo", proc[p].in.id, fault)
          IN  /\ proc' = [proc EXCEPT ![p] = SaveAreaFarmFound(proc[p], result, reservoirId)]
              /\ repoFailed' = (repoFailed \/ result.Error # NoError)
    /\ UNCHANGED <<stores, uids, material>>

\* Lines 452-475: the optional photo is uploaded and measured.
AttachPhoto(a, photo) ==
    IF photo = "" THEN [err |-> NoError, value |-> a]
    ELSE IF photo = "unwritable.jpg" THEN [err |-> Err("UPLOAD", "photo"), value |-> a]
    ELSE IF photo = "broken.jpg" THEN [err |-> Err("IMAGE", "photo"), value |-> a]
    ELSE [err |-> NoError, value |-> [a EXCEPT !.photo = photo]]

\* SaveAreaProcess creating the Area before the size and location validators ran.
SaveAreaProcess_CreateFirst(pr, result, uid, form) ==
    LET read1 == [pr.in EXCEPT !.name = form.name, !.type = form.type]
        read2 == [read1 EXCEPT !.size = form.size, !.sizeUnit = form.sizeUnit]
        read3 == [read2 EXCEPT !.location = form.location]
        read4 == [read3 EXCEPT !.photo = form.photo]
        done == Complete(pr, result.Error)
        c == CreateArea(uid, pr.farm, form.name, form.type)
        size == ValidateAreaSize(form.size, form.sizeUnit)
        location == ValidateAreaLocation(form.location)
        s == ChangeSize(c.value, size.value)
        l == ChangeLocation(s.value, form.location)
        ph == AttachPhoto(l.value, form.photo)
        area == [ph.value EXCEPT !.farmUID = pr.farm.UID, !.reservoirUID = result.Result.UID]
        a == AddArea(pr.farm, area)
        loaded == [done EXCEPT !.reservoir = result.Result]
        made == [loaded EXCEPT !.built = TRUE, !.area = c.value]
    IN  IF result.Error # NoError THEN Return(done, result.Error)
        ELSE IF c.err # NoError
             THEN Return([loaded EXCEPT !.in = read1, !.stage = "process"], c.err)
        ELSE IF size.err # NoError THEN Return([made EXCEPT !.in = read2], size.err)
        ELSE IF location # NoError THEN Return([made EXCEPT !.in = read3], location)
        ELSE IF s.err # NoError
             THEN Return([made EXCEPT !.in = read3, !.stage = "process"], s.err)
        ELSE IF l.err # NoError
             THEN Return([made EXCEPT !.in = read3, !.stage = "process", !.area = s.value],
                         l.err)
        ELSE IF ph.err # NoError
             THEN Return([made EXCEPT !.in = read4, !.stage = "process", !.area = l.value],
                         ph.err)
        ELSE IF a.err # NoError
             THEN Return([made EXCEPT !.in = read4, !.stage = "process", !.area = area],
                         a.err)
        ELSE Issue([made EXCEPT !.in = read4, !.area = area, !.farm = a.value,
                                !.stage = "persist"],
                   "ReservoirRepo", "Save")

\* Lines 421-486: the reservoir is found; size and location are validated; the Area
\* is created, sized, located, given its photo, farm and reservoir and added to
\* the farm; ReservoirRepo.Save of the loaded reservoir is issued.
SaveAreaProcess(pr, result, uid, form) ==
    LET read1 == [pr.in EXCEPT !.size = form.size, !.sizeUnit = form.sizeUnit]
        read2 == [read1 EXCEPT !.location = form.location]
        read3 == [read2 EXCEPT !.name = form.name, !.type = form.type]
        read4 == [read3 EXCEPT !.photo = form.photo]
        done == Complete(pr, result.Error)
        size == ValidateAreaSize(form.size, form.sizeUnit)
        location == ValidateAreaLocation(form.location)
        c == CreateArea(uid, pr.farm, form.name, form.type)
        s == ChangeSize(c.value, size.value)
        l == ChangeLocation(s.value, form.location)
        ph == AttachPhoto(l.value, form.photo)
        area == [ph.value EXCEPT !.farmUID = pr.farm.UID, !.reservoirUID = result.Result.UID]
        a == AddArea(pr.farm, area)
        loaded == [done EXCEPT !.reservoir = result.Result]
        made == [loaded EXCEPT !.stage = "process", !.built = TRUE]
    IN  IF result.Error # NoError THEN Return(done, result.Error)
        ELSE IF size.err # NoError THEN Return([loaded EXCEPT !.in = read1], size.err)
        ELSE IF location # NoError THEN Return([loaded EXCEPT !.in = read2], location)
        ELSE IF c.err # NoError
             THEN Return([loaded EXCEPT !.in = read3, !.stage = "process"], c.err)
        ELSE IF s.err # NoError
             THEN Return([made EXCEPT !.in = read3, !.area = c.value], s.err)
        ELSE IF l.err # NoError
             THEN Return([made EXCEPT !.in = read3, !.area = s.value], l.err)
        ELSE IF ph.err # NoError
             THEN Return([made EXCEPT !.in = read4, !.area = l.value], ph.err)
        ELSE IF a.err # NoError THEN Return([made EXCEPT !.in = read4, !.area = area], a.err)
        ELSE Issue([made EXCEPT !.in = read4, !.area = area, !.farm = a.value,
                                !.stage = "persist"],
                   "ReservoirRepo", "Save")

SaveArea_ValidateReservoir(p) ==
    /\ At(p, "SaveArea", "ReservoirRepo.FindByID")
    /\ \E fault \in BOOLEAN, name \in {"", "A1"}, type \in {"seeding", "growing", "parking"},
          size \in {"big", "10"}, sizeUnit \in {"m2", "hectare", "foot"},
          location \in {"", "indoor"},
          photo \in {"", "a.jpg", "unwritable.jpg", "broken.jpg"} :
          LET result == FindByID(reservoirStore, ZeroReservoir, "ReservoirRepo",
                                 proc[p].in.reservoirId, fault)
              form == [NoInput EXCEPT !.name = name, !.type = type, !.size = size,
                                      !.sizeUnit = sizeUnit, !.location = location,
                                      !.photo = photo]
              pr == SaveAreaProcess(proc[p], result, nextAreaUID, form)
          IN  /\ proc' = [proc EXCEPT ![p] = pr]
              /\ nextAreaUID' = IF pr.built THEN nextAreaUID + 1 ELSE nextAreaUID
              /\ repoFailed' = (repoFailed \/ result.Error # NoError)
    /\ UNCHANGED <<stores, nextFarmUID, nextReservoirUID, nextNoteUID, material>>

\* Lines 486-491: ReservoirRepo.Save completes; AreaRepo.Save is issued.
SaveAreaReservoirSaved(pr, fault) ==
    IF fault
    THEN Return(Complete(pr, StorageError("ReservoirRepo")), StorageError("ReservoirRepo"))
    ELSE Issue(Complete(pr, NoError), "AreaRepo", "Save")

SaveArea_SaveReservoir(p) ==
    /\ At(p, "SaveArea", "ReservoirRepo.Save")
    /\ \E fault \in BOOLEAN :
          /\ proc' = [proc EXCEPT ![p] = SaveAreaReservoirSaved(proc[p], fault)]
          /\ reservoirStore' = IF fault THEN reservoirStore
                               ELSE Save(reservoirStore, proc[p].reservoir)
          /\ repoFailed' = (repoFailed \/ fault)
    /\ UNCHANGED <<farmStore, areaStore, uids, material>>

\* SaveAreaAreaSaved going on to FarmRepo.Save after AreaRepo.Save failed.
SaveAreaAreaSaved_GoesOn(pr, fault) ==
    IF fault THEN Issue(Complete(pr, StorageError("AreaRepo")), "FarmRepo", "Save")
    ELSE Issue(Complete(pr, NoError), "FarmRepo", "Save")

\* Lines 491-496: AreaRepo.Save completes; FarmRepo.Save is issued.
SaveAreaAreaSaved(pr, fault) ==
    IF fault THEN Return(Complete(pr, StorageError("AreaRepo")), StorageError("AreaRepo"))
    ELSE Issue(Complete(pr, NoError), "FarmRepo", "Save")

SaveArea_SaveArea(p) ==
    /\ At(p, "SaveArea", "AreaRepo.Save")
    /\ \E fault \in BOOLEAN :
          /\ proc' = [proc EXCEPT ![p] = SaveAreaAreaSaved(proc[p], fault)]
          /\ areaStore' = IF fault THEN areaStore ELSE Save(areaStore, proc[p].area)
          /\ repoFailed' = (repoFailed \/ fault)
    /\ UNCHANGED <<farmStore, reservoirStore, uids, material>>

\* Lines 496-508: FarmRepo.Save completes.
SaveAreaFarmSaved(pr, fault) ==
    IF fault THEN Return(Complete(pr, StorageError("FarmRepo")), StorageError("FarmRepo"))
    ELSE Return([Complete(pr, NoError) EXCEPT !.stage = "respond"], NoError)

SaveArea_SaveFarm(p) ==
    /\ At(p, "SaveArea", "FarmRepo.Save")
    /\ \E fault \in BOOLEAN :
          /\ proc' = [proc EXCEPT ![p] = SaveAreaFarmSaved(proc[p], fault)]
          /\ farmStore' = IF fault THEN farmStore ELSE Save(farmStore, proc[p].farm)
          /\ repoFailed' = (repoFailed \/ fault)
    /\ UNCHANGED <<reservoirStore, areaStore, uids, material>>

\* ------------------------------------------------------ SaveAreaNotes
\* Lines 511-518: the parameters are read and AreaRepo.FindByID is issued.
SaveAreaNotes(p) ==
    /\ proc[p].pc = "idle"
    /\ nextNoteUID + Drawing({"SaveReservoirNotes", "SaveAreaNotes"},
                             {"ReservoirRepo.FindByID", "AreaRepo.FindByID",
                              "FarmRepo.FindByID"}) <= MaxNotes
    /\ \E id \in AreaIds, content \in {"", "hello"} :
          proc' = [proc EXCEPT ![p] =
                      Issue(Enter("SaveAreaNotes",
                                  [NoInput EXCEPT !.id = id, !.content = content]),
                            "AreaRepo", "FindByID")]
    /\ UNCHANGED <<stores, uids, repoFailed, material>>

\* Lines 518-528: the area is found; FarmRepo.FindByID of its farm is issued.
SaveAreaNotesFound(pr, result) ==
    IF result.Error # NoError THEN Return(Complete(pr, result.Error), result.Error)
    ELSE Issue([Complete(pr, NoError) EXCEPT !.area = result.Result],
               "FarmRepo", "FindByID")

SaveAreaNotes_FindArea(p) ==
    /\ At(p, "SaveAreaNotes", "AreaRepo.FindByID")
    /\ \E fault \in BOOLEAN :
          LET result == FindByID(areaStore, ZeroArea, "AreaRepo",
                                 proc[p].in.id, fault)
          IN  /\ proc' = [proc EXCEPT ![p] = SaveAreaNotesFound(proc[p], result)]
              /\ repoFailed' = (repoFailed \/ result.Error # NoError)
    /\ UNCHANGED <<stores, uids, material>>

\* SaveAreaNotesProcess without the check of the content.
SaveAreaNotesProcess_NoContentCheck(pr, result, noteUID) ==
    LET done == Complete(pr, result.Error)
        area == AddNewNote(pr.area, pr.in.content, noteUID)
        sync == ChangeAreaInformation(result.Result, area)
    IN  IF result.Error # NoError THEN Return(done, result.Error)
        ELSE Issue([done EXCEPT !.stage = "persist", !.built = TRUE,
                                !.area = area, !.farm = sync.value,
                                !.syncErr = sync.err],
                   "AreaRepo", "Save")

\* Lines 528-547: the farm is found; the content is checked; the note is added and
\* the farm's mirror replaced (the result of ChangeAreaInformation is dropped);
\* AreaRepo.Save is issued.
SaveAreaNotesProcess(pr, result, noteUID) ==
    LET done == Complete(pr, result.Error)
        area == AddNewNote(pr.area, pr.in.content, noteUID)
        sync == ChangeAreaInformation(result.Result, area)
    IN  IF result.Error # NoError THEN Return(done, result.Error)
        ELSE IF pr.in.content = ""
             THEN Return([done EXCEPT !.farm = result.Result],
                         NewRequestValidationError("REQUIRED", "content"))
        ELSE Issue([done EXCEPT !.stage = "persist", !.built = TRUE,
                                !.area = area, !.farm = sync.value,
                                !.syncErr = sync.err],
                   "AreaRepo", "Save")

SaveAreaNotes_FindFarm(p) ==
    /\ At(p, "SaveAreaNotes", "FarmRepo.FindByID")
    /\ \E fault \in BOOLEAN :
          LET result == FindByID(farmStore, ZeroFarm, "FarmRepo",
                                 proc[p].area.farmUID, fault)
              pr == SaveAreaNotesProcess(proc[p], result, nextNoteUID)
          IN  /\ proc' = [proc EXCEPT ![p] = pr]
              /\ nextNoteUID' = IF pr.built THEN nextNoteUID + 1 ELSE nextNoteUID
              /\ repoFailed' = (repoFailed \/ result.Error # NoError)
    /\ UNCHANGED <<stores, nextFarmUID, nextReservoirUID, nextAreaUID, material>>

\* Lines 547-552: AreaRepo.Save completes; an error is answered with a 500.
SaveAreaNotesSaved(pr, fault) ==
    IF fault THEN Return(Complete(pr, StorageError("AreaRepo")), InternalServerError)
    ELSE Issue(Complete(pr, NoError), "FarmRepo", "Save")

\* SaveAreaNotes_SaveArea going on to the Farm without having stored the Area.
SaveAreaNotes_SaveArea_NotStored(p) ==
    /\ At(p, "SaveAreaNotes", "AreaRepo.Save")
    /\ \E fault \in BOOLEAN :
          /\ proc' = [proc EXCEPT ![p] = SaveAreaNotesSaved(proc[p], fault)]
          /\ repoFailed' = (repoFailed \/ fault)
    /\ UNCHANGED <<stores, uids, material>>

SaveAreaNotes_SaveArea(p) ==
    /\ At(p, "SaveAreaNotes", "AreaRepo.Save")
    /\ \E fault \in BOOLEAN :
          /\ proc' = [proc EXCEPT ![p] = SaveAreaNotesSaved(proc[p], fault)]
          /\ areaStore' = IF fault THEN areaStore ELSE Save(areaStore, proc[p].area)
          /\ repoFailed' = (repoFailed \/ fault)
    /\ UNCHANGED <<farmStore, reservoirStore, uids, material>>

\* Lines 552-564: FarmRepo.Save completes.
SaveAreaNotesFarmSaved(pr, fault) ==
    IF fault THEN Return(Complete(pr, StorageError("FarmRepo")), InternalServerError)
    ELSE Return([Complete(pr, NoError) EXCEPT !.stage = "respond"], NoError)

SaveAreaNotes_SaveFarm(p) ==
    /\ At(p, "SaveAreaNotes", "FarmRepo.Save")
    /\ \E fault \in BOOLEAN :
          /\ proc' = [proc EXCEPT ![p] = SaveAreaNotesFarmSaved(proc[p], fault)]
          /\ farmStore' = IF fault THEN farmStore ELSE Save(farmStore, proc[p].farm)
          /\ repoFailed' = (repoFailed \/ fault)
    /\ UNCHANGED <<reservoirStore, areaStore, uids, material>>

\* ---------------------------------------------------- RemoveAreaNotes
\* Lines 567-574.
RemoveAreaNotes(p) ==
    /\ proc[p].pc = "idle"
    /\ \E id \in AreaIds, noteId \in NoteIds :
          proc' = [proc EXCEPT ![p] =
                      Issue(Enter("RemoveAreaNotes",
                                  [NoInput EXCEPT !.id = id, !.noteId = noteId]),
                            "AreaRepo", "FindByID")]
    /\ UNCHANGED <<stores, uids, repoFailed, material>>

\* Lines 574-584.
RemoveAreaNotesFound(pr, result) ==
    IF result.Error # NoError THEN Return(Complete(pr, result.Error), result.Error)
    ELSE Issue([Complete(pr, NoError) EXCEPT !.area = result.Result],
               "FarmRepo", "FindByID")

RemoveAreaNotes_FindArea(p) ==
    /\ At(p, "RemoveAreaNotes", "AreaRepo.FindByID")
    /\ \E fault \in BOOLEAN :
          LET result == FindByID(areaStore, ZeroArea, "AreaRepo",
                                 proc[p].in.id, fault)
          IN  /\ proc' = [proc EXCEPT ![p] = RemoveAreaNotesFound(proc[p], result)]
              /\ repoFailed' = (repoFailed \/ result.Error # NoError)
    /\ UNCHANGED <<stores, uids, material>>

\* Lines 584-606: the farm is found; the note is removed and the farm's mirror
\* replaced, either failure returns; AreaRepo.Save is issued.
RemoveAreaNotesProcess(pr, result) ==
    LET done == [Complete(pr, result.Error) EXCEPT !.farm = result.Result]
        removed == RemoveNote(pr.area, pr.in.noteId)
        sync == ChangeAreaInformation(result.Result, removed.value)
    IN  IF result.Error # NoError THEN Return(done, result.Error)
        ELSE IF removed.err # NoError
             THEN Return([done EXCEPT !.stage = "process"], removed.err)
        ELSE IF sync.err # NoError
             THEN Return([done EXCEPT !.stage = "process", !.built = TRUE,
                                      !.area = removed.value, !.syncErr = sync.err],
                         sync.err)
        ELSE Issue([done EXCEPT !.stage = "persist", !.built = TRUE,
                                !.area = removed.value, !.farm = sync.value],
                   "AreaRepo", "Save")

RemoveAreaNotes_FindFarm(p) ==
    /\ At(p, "RemoveAreaNotes", "FarmRepo.FindByID")
    /\ \E fault \in BOOLEAN :
          LET result == FindByID(farmStore, ZeroFarm, "FarmRepo",
                                 proc[p].area.farmUID, fault)
          IN  /\ proc' = [proc EXCEPT ![p] = RemoveAreaNotesProcess(proc[p], result)]
              /\ repoFailed' = (repoFailed \/ result.Error # NoError)
    /\ UNCHANGED <<stores, uids, material>>

\* Lines 606-611.
RemoveAreaNotesSaved(pr, fault) ==
    IF fault THEN Return(Complete(pr, StorageError("AreaRepo")), InternalServerError)
    ELSE Issue(Complete(pr, NoError), "FarmRepo", "Save")

RemoveAreaNotes_SaveArea(p) ==
    /\ At(p, "RemoveAreaNotes", "AreaRepo.Save")
    /\ \E fault \in BOOLEAN :
          /\ proc' = [proc EXCEPT ![p] = RemoveAreaNotesSaved(proc[p], fault)]
          /\ areaStore' = IF fault THEN areaStore ELSE Save(areaStore, proc[p].area)
          /\ repoFailed' = (repoFailed \/ fault)
    /\ UNCHANGED <<farmStore, reservoirStore, uids, material>>

\* Lines 611-623.
RemoveAreaNotesFarmSaved(pr, fault) ==
    IF fault THEN Return(Complete(pr, StorageError("FarmRepo")), InternalServerError)
    ELSE Return([Complete(pr, NoError) EXCEPT !.stage = "respond"], NoError)

RemoveAreaNotes_SaveFarm(p) ==
    /\ At(p, "RemoveAreaNotes", "FarmRepo.Save")
    /\ \E fault \in BOOLEAN :
          /\ proc' = [proc EXCEPT ![p] = RemoveAreaNotesFarmSaved(proc[p], fault)]
          /\ farmStore' = IF fault THEN farmStore ELSE Save(farmStore, proc[p].farm)
          /\ repoFailed' = (repoFailed \/ fault)
    /\ UNCHANGED <<reservoirStore, areaStore, uids, material>>

\* ------------------------------------------------------------ SaveMaterial
\* SaveMaterialValidate with the failure of time.Parse ignored.
SaveMaterialValidate_DateUnchecked(form) ==
    LET q == ParseFloat(form.quantity)
        read1 == [NoInput EXCEPT !.quantity = form.quantity]
        read3 == [read1 EXCEPT !.expirationDate = form.expirationDate,
                               !.notes = form.notes, !.producedBy = form.producedBy,
                               !.isExpense = form.isExpense]
    IN  IF ~q.ok
        THEN [err |-> NewRequestValidationError("INVALID_OPTION", "quantity"),
              in |-> read1,
              value |-> [q |-> 0, expDate |-> Nil(NoDate), n |-> Nil(""), pb |-> Nil(""),
                         isExpenseBool |-> Nil(FALSE)]]
        ELSE [err |-> NoError, in |-> read3,
              value |-> [q |-> q.value,
                         expDate |-> IF form.expirationDate # ""
                                     THEN Ptr(ParseDate(form.expirationDate).value)
                                     ELSE Nil(NoDate),
                         n |-> IF form.notes # "" THEN Ptr(form.notes) ELSE Nil(""),
                         pb |-> IF form.producedBy # "" THEN Ptr(form.producedBy)
                                ELSE Nil(""),
                         isExpenseBool |-> IF form.isExpense = "true" THEN Ptr(TRUE)
                                           ELSE Nil(FALSE)]]

\* Lines 744-774: the quantity and the expiration date are parsed and the optional
\* values are taken; `in` records the form values as the handler uses them.
SaveMaterialValidate(form) ==
    LET q == ParseFloat(form.quantity)
        tp == ParseDate(form.expirationDate)
        read1 == [NoInput EXCEPT !.quantity = form.quantity]
        read2 == [read1 EXCEPT !.expirationDate = form.expirationDate]
        read3 == [read2 EXCEPT !.notes = form.notes, !.producedBy = form.producedBy,
                               !.isExpense = form.isExpense]
        none == [q |-> 0, expDate |-> Nil(NoDate), n |-> Nil(""), pb |-> Nil(""),
                 isExpenseBool |-> Nil(FALSE)]
    IN  IF ~q.ok
        THEN [err |-> NewRequestValidationError("INVALID_OPTION", "quantity"),
              in |-> read1, value |-> none]
        ELSE IF form.expirationDate # "" /\ ~tp.ok
        THEN [err |-> NewRequestValidationError("PARSE_FAILED", "expiration_date"),
              in |-> read2, value |-> none]
        ELSE [err |-> NoError, in |-> read3,
              value |-> [q |-> q.value,
                         expDate |-> IF form.expirationDate # "" THEN Ptr(tp.value)
                                     ELSE Nil(NoDate),
                         n |-> IF form.notes # "" THEN Ptr(form.notes) ELSE Nil(""),
                         pb |-> IF form.producedBy # "" THEN Ptr(form.producedBy)
                                ELSE Nil(""),
                         isExpenseBool |-> IF form.isExpense # "" /\ form.isExpense = "true"
                                           THEN Ptr(TRUE) ELSE Nil(FALSE)]]

\* SaveMaterialType with the secondary code passed on without its lookup.
SaveMaterialType_NoLookup(in, form) ==
    LET category == form.type
        read == [in EXCEPT !.type = category]
    IN  CASE category = MaterialTypeSeedCode ->
                [in |-> [read EXCEPT !.plantType = form.plantType], err |-> NoError,
                 value |-> [code |-> category, detail |-> form.plantType]]
          [] category = MaterialTypeAgrochemicalCode ->
                [in |-> [read EXCEPT !.chemicalType = form.chemicalType], err |-> NoError,
                 value |-> [code |-> category, detail |-> form.chemicalType]]
          [] category = MaterialTypeSeedingContainerCode ->
                [in |-> [read EXCEPT !.containerType = form.containerType], err |-> NoError,
                 value |-> [code |-> category, detail |-> form.containerType]]
          [] category \in MaterialTypeCodes ->
                [in |-> read, err |-> NoError, value |-> PlainMaterialType(category)]
          [] OTHER -> [in |-> read, err |-> NoError, value |-> NoMaterialType]

\* Lines 777-817: the switch on the category.  A category with a secondary code
\* looks it up and fails on a code its table does not hold; a category the switch
\* does not name leaves mt as it was declared, without a type.
SaveMaterialType(in, form) ==
    LET category == form.type
        read == [in EXCEPT !.type = category]
        secondary(field) == NewRequestValidationError("INVALID_OPTION", field)
        typed(r) == IF r.err # NoError
                    THEN [r EXCEPT !.err = NewRequestValidationError("INVALID_OPTION", "type")]
                    ELSE r
    IN  CASE category = MaterialTypeSeedCode ->
                [in |-> [read EXCEPT !.plantType = form.plantType]] @@
                (IF GetPlantType(form.plantType) = ""
                 THEN [err |-> secondary("plant_type"), value |-> NoMaterialType]
                 ELSE typed(CreateMaterialTypeSeed(GetPlantType(form.plantType))))
          [] category = MaterialTypeAgrochemicalCode ->
                [in |-> [read EXCEPT !.chemicalType = form.chemicalType]] @@
                (IF GetChemicalType(form.chemicalType) = ""
                 THEN [err |-> secondary("chemical_type"), value |-> NoMaterialType]
                 ELSE typed(CreateMaterialTypeAgrochemical(GetChemicalType(form.chemicalType))))
          [] category = MaterialTypeSeedingContainerCode ->
                [in |-> [read EXCEPT !.containerType = form.containerType]] @@
                (IF GetContainerType(form.containerType) = ""
                 THEN [err |-> secondary("container_type"), value |-> NoMaterialType]
                 ELSE typed(CreateMaterialTypeSeedingContainer(
                                GetContainerType(form.containerType))))
          [] category \in {MaterialTypeGrowingMediumCode, MaterialTypeLabelAndCropSupportCode,
                           MaterialTypePostHarvestSupplyCode, MaterialTypeOtherCode} ->
                [in |-> read, err |-> NoError, value |-> PlainMaterialType(category)]
          [] OTHER -> [in |-> read, err |-> NoError, value |-> NoMaterialType]

\* Lines 725-830: validation, the type, CreateMaterial, the optional fields set on
\* the new Material, and MaterialRepo.Save issued.
SaveMaterialEntry(form, uid, typeless) ==
    LET v == SaveMaterialValidate(form)
        t == SaveMaterialType(v.in, form)
        read == [t.in EXCEPT !.name = form.name, !.pricePerUnit = form.pricePerUnit,
                             !.currencyCode = form.currencyCode,
                             !.quantityUnit = form.quantityUnit]
        c == CreateMaterial(uid, form.name, form.pricePerUnit, form.currencyCode,
                            t.value, v.value.q, form.quantityUnit, typeless)
        m == [c.value EXCEPT !.expirationDate = v.value.expDate, !.notes = v.value.n,
                             !.producedBy = v.value.pb,
                             !.isExpense = v.value.isExpenseBool]
        called == [Enter("SaveMaterial", read) EXCEPT !.stage = "process", !.mt = t.value,
                                                      !.createCalled = TRUE]
    IN  IF v.err # NoError THEN Return(Enter("SaveMaterial", v.in), v.err)
        ELSE IF t.err # NoError
             THEN Return([Enter("SaveMaterial", t.in) EXCEPT !.stage = "process"], t.err)
        ELSE IF c.err # NoError THEN Return(called, c.err)
        ELSE Issue([called EXCEPT !.built = TRUE, !.material = m, !.records = c.records,
                                  !.stage = "persist"],
                   "MaterialRepo", "Save")

\* The values of a secondary-code field in the requests drawn: a code of the table
\* or an unknown one for the category that uses the field, none for the others.
SecondaryCodes(category, user, known) == IF category = user THEN {known, "??"} ELSE {""}

SaveMaterial(p) ==
    /\ proc[p].pc = "idle"
    /\ nextMaterialUID <= MaxMaterials
    /\ \E category \in MaterialTypeCodes \cup {"fertilizer"},
          name \in {"", "M1"}, pricePerUnit \in {"10", "free"},
          currencyCode \in {"IDR"}, quantity \in {"10", "-5", "lots"},
          expirationDate \in {"", "2026-12-31", "31/12/2026"},
          notes \in {"", "keep dry"}, producedBy \in {"", "Acme"},
          isExpense \in {"", "true", "false"} :
       \* the request carries the secondary code of its category
       \E plantType \in SecondaryCodes(category, MaterialTypeSeedCode, "vegetable"),
          chemicalType \in SecondaryCodes(category, MaterialTypeAgrochemicalCode, "pesticide"),
          containerType \in SecondaryCodes(category, MaterialTypeSeedingContainerCode, "tray"),
          typeless \in (IF category \in MaterialTypeCodes THEN {FALSE} ELSE BOOLEAN) :
          LET form == [NoInput EXCEPT !.type = category, !.plantType = plantType,
                                      !.chemicalType = chemicalType,
                                      !.containerType = containerType, !.name = name,
                                      !.pricePerUnit = pricePerUnit,
                                      !.currencyCode = currencyCode,
                                      !.quantity = quantity, !.quantityUnit = "PACKETS",
                                      !.expirationDate = expirationDate, !.notes = notes,
                                      !.producedBy = producedBy, !.isExpense = isExpense]
              pr == SaveMaterialEntry(form, nextMaterialUID, typeless)
          IN  /\ proc' = [proc EXCEPT ![p] = pr]
              /\ nextMaterialUID' = IF pr.built THEN nextMaterialUID + 1
                                    ELSE nextMaterialUID
    /\ UNCHANGED <<stores, uids, materialStore, materialLog, repoFailed>>

\* Lines 830-837: MaterialRepo.Save completes; its error is returned as it is.
SaveMaterialSaved(pr, fault) ==
    IF fault
    THEN Return(Complete(pr, StorageError("MaterialRepo")), StorageError("MaterialRepo"))
    ELSE Return([Complete(pr, NoError) EXCEPT !.stage = "respond"], NoError)

\* The Material is stored with the records it has produced.
SaveMaterial_Save(p) ==
    /\ At(p, "SaveMaterial", "MaterialRepo.Save")
    /\ \E fault \in BOOLEAN :
          /\ proc' = [proc EXCEPT ![p] = SaveMaterialSaved(proc[p], fault)]
          /\ materialStore' = IF fault THEN materialStore
                              ELSE Save(materialStore, proc[p].material)
          /\ materialLog' = IF fault THEN materialLog ELSE materialLog \o proc[p].records
          /\ repoFailed' = (repoFailed \/ fault)
    /\ UNCHANGED <<stores, uids, nextMaterialUID>>

\* ------------------------------------------------------------ the queries
\* Lines 97-100.
FindAllFarm(p) ==
    /\ proc[p].pc = "idle"
    /\ proc' = [proc EXCEPT ![p] = Issue(Enter("FindAllFarm", NoInput), "FarmRepo", "FindAll")]
    /\ UNCHANGED <<stores, uids, repoFailed, material>>

\* Lines 100-112: `return result.Error` on an error.
FindAllFarmFound(pr, fault) ==
    IF fault THEN Return(Complete(pr, StorageError("FarmRepo")), StorageError("FarmRepo"))
    ELSE Return([Complete(pr, NoError) EXCEPT !.stage = "respond"], NoError)

FindAllFarm_FindAll(p) ==
    /\ At(p, "FindAllFarm", "FarmRepo.FindAll")
    /\ \E fault \in BOOLEAN :
          /\ proc' = [proc EXCEPT ![p] = FindAllFarmFound(proc[p], fault)]
          /\ repoFailed' = (repoFailed \/ fault)
    /\ UNCHANGED <<stores, uids, material>>

\* Lines 840-844.
GetAvailableSeedMaterial(p) ==
    /\ proc[p].pc = "idle"
    /\ proc' = [proc EXCEPT ![p] =
                   Issue(Enter("GetAvailableSeedMaterial", NoInput), "MaterialRepo", "FindAll")]
    /\ UNCHANGED <<stores, uids, repoFailed, material>>

\* Lines 844-853: result.Error is not read; a completion without a value fails the
\* type assertion and is answered with a 400.
GetAvailableSeedMaterialFound(pr, fault) ==
    IF fault THEN Return(Complete(pr, StorageError("MaterialRepo")), BadRequestError)
    ELSE Return([Complete(pr, NoError) EXCEPT !.stage = "respond"], NoError)

GetAvailableSeedMaterial_FindAll(p) ==
    /\ At(p, "GetAvailableSeedMaterial", "MaterialRepo.FindAll")
    /\ \E fault \in BOOLEAN :
          /\ proc' = [proc EXCEPT ![p] = GetAvailableSeedMaterialFound(proc[p], fault)]
          /\ repoFailed' = (repoFailed \/ fault)
    /\ UNCHANGED <<stores, uids, material>>

\* FindFarmByID (144-147), GetFarmReservoirs (351-354), GetFarmAreas (626-629):
\* one FarmRepo.FindByID.
FarmQueries == {"FindFarmByID", "GetFarmReservoirs", "GetFarmAreas"}

FarmQuery(p) ==
    /\ proc[p].pc = "idle"
    /\ \E h \in FarmQueries, id \in FarmIds :
          proc' = [proc EXCEPT ![p] =
                      Issue(Enter(h, [NoInput EXCEPT !.id = id]), "FarmRepo", "FindByID")]
    /\ UNCHANGED <<stores, uids, repoFailed, material>>

\* Lines 147-159, 354-374, 629-646.
FarmQueryFound(pr, result) ==
    IF result.Error # NoError THEN Return(Complete(pr, result.Error), result.Error)
    ELSE Return([Complete(pr, NoError) EXCEPT !.farm = result.Result, !.stage = "respond"],
                NoError)

FarmQuery_FindFarm(p) ==
    /\ proc[p].h \in FarmQueries /\ proc[p].pc = "FarmRepo.FindByID"
    /\ \E fault \in BOOLEAN :
          LET result == FindByID(farmStore, ZeroFarm, "FarmRepo", proc[p].in.id, fault)
          IN  /\ proc' = [proc EXCEPT ![p] = FarmQueryFound(proc[p], result)]
              /\ repoFailed' = (repoFailed \/ result.Error # NoError)
    /\ UNCHANGED <<stores, uids, material>>

\* GetReservoirsByID (377-381), GetAreasByID (649-653), GetAreaPhotos (683-685):
\* FarmRepo.FindByID, then FindByID of the child.
ChildQueries == {"GetReservoirsByID", "GetAreasByID", "GetAreaPhotos"}

ChildQuery(p) ==
    /\ proc[p].pc = "idle"
    /\ \E h \in ChildQueries, id \in FarmIds, child \in ReservoirIds \cup AreaIds :
          proc' = [proc EXCEPT ![p] =
                      Issue(Enter(h, [NoInput EXCEPT !.id = id, !.reservoirId = child]),
                            "FarmRepo", "FindByID")]
    /\ UNCHANGED <<stores, uids, repoFailed, material>>

\* Lines 381-391, 653-663, 685-695.
ChildQueryFarmFound(pr, result) ==
    IF result.Error # NoError THEN Return(Complete(pr, result.Error), result.Error)
    ELSE Issue([Complete(pr, NoError) EXCEPT !.farm = result.Result],
               IF pr.h = "GetReservoirsByID" THEN "ReservoirRepo" ELSE "AreaRepo", "FindByID")

ChildQuery_FindFarm(p) ==
    /\ proc[p].h \in ChildQueries /\ proc[p].pc = "FarmRepo.FindByID"
    /\ \E fault \in BOOLEAN :
          LET result == FindByID(farmStore, ZeroFarm, "FarmRepo", proc[p].in.id, fault)
          IN  /\ proc' = [proc EXCEPT ![p] = ChildQueryFarmFound(proc[p], result)]
              /\ repoFailed' = (repoFailed \/ result.Error # NoError)
    /\ UNCHANGED <<stores, uids, material>>

\* Lines 391-408.
GetReservoirsByIDFound(pr, result) ==
    IF result.Error # NoError THEN Return(Complete(pr, result.Error), result.Error)
    ELSE Return([Complete(pr, NoError) EXCEPT !.reservoir = result.Result,
                                              !.stage = "respond"], NoError)

GetReservoirsByID_FindReservoir(p) ==
    /\ At(p, "GetReservoirsByID", "ReservoirRepo.FindByID")
    /\ \E fault \in BOOLEAN :
          LET result == FindByID(reservoirStore, ZeroReservoir, "ReservoirRepo",
                                 proc[p].in.reservoirId, fault)
          IN  /\ proc' = [proc EXCEPT ![p] = GetReservoirsByIDFound(proc[p], result)]
              /\ repoFailed' = (repoFailed \/ result.Error # NoError)
    /\ UNCHANGED <<stores, uids, material>>

\* Lines 663-680 and 695-712: GetAreaPhotos answers NOT_FOUND(photo) for an area
\* without a photo.
AreaQueryFound(pr, result) ==
    LET found == [Complete(pr, result.Error) EXCEPT !.area = result.Result]
    IN  IF result.Error # NoError THEN Return(found, result.Error)
        ELSE IF pr.h = "GetAreaPhotos" /\ result.Result.photo = ""
             THEN Return(found, NewRequestValidationError("NOT_FOUND", "photo"))
        ELSE Return([found EXCEPT !.stage = "respond"], NoError)

AreaQuery_FindArea(p) ==
    /\ proc[p].h \in {"GetAreasByID", "GetAreaPhotos"} /\ proc[p].pc = "AreaRepo.FindByID"
    /\ \E fault \in BOOLEAN :
          LET result == FindByID(areaStore, ZeroArea, "AreaRepo",
                                 proc[p].in.reservoirId, fault)
          IN  /\ proc' = [proc EXCEPT ![p] = AreaQueryFound(proc[p], result)]
              /\ repoFailed' = (repoFailed \/ result.Error # NoError)
    /\ UNCHANGED <<stores, uids, material>>

\* The response is delivered to the caller; the slot is free again.
Respond(p) ==
    /\ proc[p].pc = "done"
    /\ proc' = [q \in Procs |-> IF q = p THEN IdleProc
                                ELSE [proc[q] EXCEPT !.overlaps = @ \ {p}]]
    /\ UNCHANGED <<stores, uids, repoFailed, material>>

\* ------------------------------------------------------------ specification
Step(p) ==
    \/ SaveFarm(p) \/ SaveFarm_Save(p)
    \/ SaveReservoir(p) \/ SaveReservoir_ValidateFarm(p)
    \/ SaveReservoir_SaveReservoir(p) \/ SaveReservoir_SaveFarm(p)
    \/ SaveReservoirNotes(p) \/ SaveReservoirNotes_FindReservoir(p)
    \/ SaveReservoirNotes_FindFarm(p) \/ SaveReservoirNotes_SaveReservoir(p)
    \/ SaveReservoirNotes_SaveFarm(p)
    \/ RemoveReservoirNotes(p) \/ RemoveReservoirNotes_FindReservoir(p)
    \/ RemoveReservoirNotes_FindFarm(p) \/ RemoveReservoirNotes_SaveReservoir(p)
    \/ RemoveReservoirNotes_SaveFarm(p)
    \/ SaveArea(p) \/ SaveArea_ValidateFarm(p) \/ SaveArea_ValidateReservoir(p)
    \/ SaveArea_SaveReservoir(p) \/ SaveArea_SaveArea(p) \/ SaveArea_SaveFarm(p)
    \/ SaveAreaNotes(p) \/ SaveAreaNotes_FindArea(p) \/ SaveAreaNotes_FindFarm(p)
    \/ SaveAreaNotes_SaveArea(p) \/ SaveAreaNotes_SaveFarm(p)
    \/ RemoveAreaNotes(p) \/ RemoveAreaNotes_FindArea(p) \/ RemoveAreaNotes_FindFarm(p)
    \/ RemoveAreaNotes_SaveArea(p) \/ RemoveAreaNotes_SaveFarm(p)
    \/ FindAllFarm(p) \/ FindAllFarm_FindAll(p)
    \/ GetAvailableSeedMaterial(p) \/ GetAvailableSeedMaterial_FindAll(p)
    \/ FarmQuery(p) \/ FarmQuery_FindFarm(p)
    \/ ChildQuery(p) \/ ChildQuery_FindFarm(p)
    \/ GetReservoirsByID_FindReservoir(p) \/ AreaQuery_FindArea(p)
    \/ Respond(p)

\* Handlers run one at a time: a single request slot.
Next == \E p \in SeqProcs : Step(p)

Spec == Init /\ [][Next]_vars

\* The handlers of the Material aggregate, one at a time.  They share no table with
\* the handlers of the Farm, Reservoir and Area aggregates.
MaterialStep(p) ==
    \/ SaveMaterial(p) \/ SaveMaterial_Save(p)
    \/ GetAvailableSeedMaterial(p) \/ GetAvailableSeedMaterial_FindAll(p)
    \/ Respond(p)

MaterialNext == \E p \in SeqProcs : MaterialStep(p)

MaterialSpec == Init /\ [][MaterialNext]_vars

\* Requests served at the same time, each in its own goroutine: the handlers that
\* create a Farm and a Reservoir and the note handlers of the Reservoir, in two
\* slots whose steps interleave at the repository calls.
ConcStep(p) ==
    \/ SaveFarm(p) \/ SaveFarm_Save(p)
    \/ SaveReservoir(p) \/ SaveReservoir_ValidateFarm(p)
    \/ SaveReservoir_SaveReservoir(p) \/ SaveReservoir_SaveFarm(p)
    \/ SaveReservoirNotes(p) \/ SaveReservoirNotes_FindReservoir(p)
    \/ SaveReservoirNotes_FindFarm(p) \/ SaveReservoirNotes_SaveReservoir(p)
    \/ SaveReservoirNotes_SaveFarm(p)
    \/ RemoveReservoirNotes(p) \/ RemoveReservoirNotes_FindReservoir(p)
    \/ RemoveReservoirNotes_FindFarm(p) \/ RemoveReservoirNotes_SaveReservoir(p)
    \/ RemoveReservoirNotes_SaveFarm(p)
    \/ Respond(p)

ConcNext == \E p \in Procs : ConcStep(p)

ConcSpec == Init /\ [][ConcNext]_vars

\* SaveArea served at the same time as a note request on a Reservoir: one slot
\* serves the requests that create the Farm, the Reservoir and the Area, the other
\* the requests that add a note to the Reservoir; their steps interleave at the
\* repository calls.
AreaStep(p) ==
    \/ SaveFarm(p) \/ SaveFarm_Save(p)
    \/ SaveReservoir(p) \/ SaveReservoir_ValidateFarm(p)
    \/ SaveReservoir_SaveReservoir(p) \/ SaveReservoir_SaveFarm(p)
    \/ SaveArea(p) \/ SaveArea_ValidateFarm(p) \/ SaveArea_ValidateReservoir(p)
    \/ SaveArea_SaveReservoir(p) \/ SaveArea_SaveArea(p) \/ SaveArea_SaveFarm(p)
    \/ Respond(p)

ReservoirNotesStep(p) ==
    \/ SaveReservoirNotes(p) \/ SaveReservoirNotes_FindReservoir(p)
    \/ SaveReservoirNotes_FindFarm(p) \/ SaveReservoirNotes_SaveReservoir(p)
    \/ SaveReservoirNotes_SaveFarm(p)
    \/ Respond(p)

AreaConcNext == AreaStep("h1") \/ ReservoirNotesStep("h2")

AreaConcSpec == Init /\ [][AreaConcNext]_vars

\* ------------------------------------------------------------------ claims
Done(p) == proc[p].pc = "done"
Quiescent == \A p \in Procs : proc[p].pc \in {"idle", "done"}
Calls(p) == proc[p].calls
NoSaveIssued(p) == \A i \in 1..Len(Calls(p)) : Calls(p)[i].op # "Save"
FindsSucceeded(p, n) ==
    /\ Len(Calls(p)) >= n
    /\ \A i \in 1..n : Calls(p)[i].op = "FindByID" /\ Calls(p)[i].status = "ok"
SomeFindFailed(p) ==
    \E i \in 1..Len(Calls(p)) : Calls(p)[i].op = "FindByID" /\ Calls(p)[i].status = "error"
Unchanged(p) == Tables = proc[p].snap

AddNoteHandlers == {"SaveReservoirNotes", "SaveAreaNotes"}
RemoveNoteHandlers == {"RemoveReservoirNotes", "RemoveAreaNotes"}
NoteHandlers == AddNoteHandlers \cup RemoveNoteHandlers
OnReservoir(p) == proc[p].h \in {"SaveReservoirNotes", "RemoveReservoirNotes"}

\* The child a note request names, in a set of tables (it is there when the lookup
\* of the request succeeded).
ChildIn(p, tables) ==
    IF OnReservoir(p) THEN CHOOSE r \in tables.reservoirs : r.UID = proc[p].in.id
    ELSE CHOOSE a \in tables.areas : a.UID = proc[p].in.id
\* The handler's own copy of that child.
ChildOf(p) == IF OnReservoir(p) THEN proc[p].reservoir ELSE proc[p].area

\* C1: when handlers run one at a time and no repository call has failed, then
\* between two handler calls every Reservoir/Area mirror in a stored Farm equals,
\* notes included, the Reservoir/Area stored under the same id.
C1_MirrorConsistency ==
    (Quiescent /\ ~repoFailed) =>
        \A f \in farmStore :
            /\ \A i \in 1..Len(f.reservoirs) : f.reservoirs[i] \in reservoirStore
            /\ \A i \in 1..Len(f.areas) : f.areas[i] \in areaStore

\* C1 witness: a note was removed from a mirrored reservoir, with a mirrored area
\* that holds a note, and no repository call has failed.
C1_Witness ==
    /\ ~repoFailed
    /\ Done("h1") /\ proc["h1"].h = "RemoveReservoirNotes" /\ proc["h1"].err = NoError
    /\ \E f \in farmStore :
          /\ Len(f.reservoirs) > 0
          /\ Len(f.areas) > 0 /\ f.areas[1].notes # {}

\* C2: a note handler whose lookup of the child or of its Farm completed with an
\* error returns that error, has issued no Save, and leaves the tables as they were.
C2_FindErrorAborts ==
    \A p \in Procs :
        (Done(p) /\ proc[p].h \in NoteHandlers /\ SomeFindFailed(p)) =>
            /\ proc[p].err = proc[p].repoErr
            /\ NoSaveIssued(p)
            /\ Unchanged(p)

\* C2 witness: RemoveAreaNotes found the area and failed to find its Farm.
C2_Witness ==
    /\ Done("h1") /\ proc["h1"].h = "RemoveAreaNotes"
    /\ Len(Calls("h1")) = 2 /\ Calls("h1")[2].status = "error"
    /\ proc["h1"].area.notes # {}

\* C3 (as claimed): in every note handler, a Farm-side sync call that fails because
\* the Farm holds no mirror of the child makes the handler fail with that error
\* without any Save, the tables unchanged.
C3_SyncFailureAborts ==
    \A p \in Procs :
        (proc[p].h \in NoteHandlers /\ proc[p].syncErr # NoError) =>
            /\ Done(p) /\ proc[p].err = proc[p].syncErr
            /\ NoSaveIssued(p)
            /\ Unchanged(p)

\* C4: in SaveReservoir and SaveArea a failing request validator returns before any
\* aggregate is created or mutated: nothing is built, the loaded Farm is as it was
\* found, no Save is issued and the tables are unchanged.
C4_ValidatorsBeforeMutation ==
    \A p \in Procs :
        (Done(p) /\ proc[p].h \in {"SaveReservoir", "SaveArea"}
                 /\ proc[p].stage = "validate" /\ proc[p].err # NoError) =>
            /\ ~proc[p].built
            /\ proc[p].area = ZeroArea
            /\ proc[p].reservoir \in proc[p].snap.reservoirs \cup {ZeroReservoir}
            /\ proc[p].farm \in proc[p].snap.farms \cup {ZeroFarm}
            /\ NoSaveIssued(p)
            /\ Unchanged(p)

\* C4 witness: SaveArea loaded the Farm and the Reservoir and the location
\* validator, the last one, failed.
C4_Witness ==
    /\ Done("h1") /\ proc["h1"].h = "SaveArea" /\ proc["h1"].stage = "validate"
    /\ proc["h1"].err = Err("REQUIRED", "location")
    /\ proc["h1"].farm # ZeroFarm /\ proc["h1"].reservoir # ZeroReservoir

\* C5: a successful add-note request leaves the stored child with exactly one note
\* more, whose id no note of the child had, and with every earlier note unchanged.
C5_AddNoteAddsOne ==
    \A p \in Procs :
        (Done(p) /\ proc[p].h \in AddNoteHandlers /\ proc[p].err = NoError) =>
            LET was == ChildIn(p, proc[p].snap).notes
                now == ChildIn(p, Tables).notes
            IN  /\ Cardinality(now) = Cardinality(was) + 1
                /\ was \subseteq now
                /\ \A n \in now \ was :
                      /\ n.id \notin {m.id : m \in was}
                      /\ n.content = proc[p].in.content

\* C5 witness: SaveAreaNotes succeeded on an area that already held a note.
C5_Witness ==
    /\ Done("h1") /\ proc["h1"].h = "SaveAreaNotes" /\ proc["h1"].err = NoError
    /\ ChildIn("h1", proc["h1"].snap).notes # {}

\* C6: an add-note request with empty content, on a child that exists and whose
\* Farm exists, fails with REQUIRED(content): the child is not mutated, the Farm is
\* not synced, no Save is issued and the stored notes are as they were.
C6_EmptyContentRejected ==
    \A p \in Procs :
        (Done(p) /\ proc[p].h \in AddNoteHandlers /\ proc[p].in.content = ""
                 /\ FindsSucceeded(p, 2)) =>
            /\ proc[p].err = Err("REQUIRED", "content")
            /\ ~proc[p].built
            /\ ChildOf(p) = ChildIn(p, proc[p].snap)
            /\ proc[p].farm \in proc[p].snap.farms
            /\ NoSaveIssued(p)
            /\ Unchanged(p)

\* C6 witness: SaveAreaNotes with empty content found the area and its Farm.
C6_Witness ==
    /\ Done("h1") /\ proc["h1"].h = "SaveAreaNotes" /\ proc["h1"].in.content = ""
    /\ FindsSucceeded("h1", 2)

\* C7: a remove-note request naming a note id the (found) child does not hold fails
\* with NOT_FOUND, issues no Save and leaves the child's notes and the Farm's mirror
\* as they were.
C7_RemoveUnknownNote ==
    \A p \in Procs :
        (Done(p) /\ proc[p].h \in RemoveNoteHandlers /\ FindsSucceeded(p, 2)
                 /\ proc[p].in.noteId \notin NoteIdsOf(ChildIn(p, proc[p].snap))) =>
            /\ proc[p].err = Err("NOT_FOUND", "note")
            /\ NoSaveIssued(p)
            /\ Unchanged(p)

\* C7 witness: RemoveReservoirNotes named a note the reservoir does not hold, while
\* it holds another one.
C7_Witness ==
    /\ Done("h1") /\ proc["h1"].h = "RemoveReservoirNotes" /\ FindsSucceeded("h1", 2)
    /\ proc["h1"].in.noteId \notin NoteIdsOf(ChildIn("h1", proc["h1"].snap))
    /\ ChildIn("h1", proc["h1"].snap).notes # {}

\* C8 (as claimed): a handler one of whose repository calls completed with an error
\* returns that same error.
C8_RepositoryErrorPropagates ==
    \A p \in Procs :
        (Done(p) /\ proc[p].repoErr # NoError) => proc[p].err = proc[p].repoErr

\* C9: within a request no repository call is issued twice; a call is issued only
\* after every earlier one completed successfully, so nothing follows a failed
\* call; the handler is suspended exactly while its last call is pending; and a
\* request whose Save failed returns an error.
C9_NoRetry ==
    \A p \in Procs :
        LET c == Calls(p)
        IN  /\ \A i, j \in 1..Len(c) :
                  (i # j) => (c[i].repo # c[j].repo \/ c[i].op # c[j].op)
            /\ \A i \in 1..(Len(c) - 1) : c[i].status = "ok"
            /\ (proc[p].pc \notin {"idle", "done"}) <=>
                  (Len(c) > 0 /\ c[Len(c)].status = "pending")
            /\ (Done(p) /\ Len(c) > 0 /\ c[Len(c)].status = "error"
                        /\ c[Len(c)].op = "Save") => proc[p].err # NoError

\* C9 witness: in SaveArea the Reservoir save succeeded and the Area save failed.
C9_Witness ==
    /\ Done("h1") /\ proc["h1"].h = "SaveArea"
    /\ Len(Calls("h1")) = 4 /\ Calls("h1")[4].status = "error"

\* The aggregate a handler passes to the Save of a repository.
Saved(p, repo) ==
    IF repo = "ReservoirRepo" THEN proc[p].reservoir
    ELSE IF repo = "AreaRepo" THEN proc[p].area ELSE proc[p].farm
Table(repo) ==
    IF repo = "ReservoirRepo" THEN reservoirStore
    ELSE IF repo = "AreaRepo" THEN areaStore ELSE farmStore
SaveFailedAfterSave(p) ==
    \E i, j \in 1..Len(Calls(p)) :
        /\ i < j
        /\ Calls(p)[i].op = "Save" /\ Calls(p)[i].status = "ok"
        /\ Calls(p)[j].op = "Save" /\ Calls(p)[j].status = "error"

\* C10: when an earlier Save of a handler succeeded and a later one failed, the
\* handler returns an error, every aggregate saved before the failure is in its
\* table exactly as saved, and the Farm table has kept its previous value.
C10_NoRollback ==
    \A p \in Procs :
        (Done(p) /\ SaveFailedAfterSave(p)) =>
            /\ proc[p].err # NoError
            /\ \A i \in 1..Len(Calls(p)) :
                  (Calls(p)[i].op = "Save" /\ Calls(p)[i].status = "ok") =>
                      Saved(p, Calls(p)[i].repo) \in Table(Calls(p)[i].repo)
            /\ farmStore = proc[p].snap.farms

\* C10 witness: SaveReservoirNotes stored the reservoir with its new note and the
\* Farm save failed.
C10_Witness ==
    /\ Done("h1") /\ proc["h1"].h = "SaveReservoirNotes"
    /\ Len(Calls("h1")) = 4 /\ Calls("h1")[3].status = "ok" /\ Calls("h1")[4].status = "error"
    /\ proc["h1"].reservoir \notin proc["h1"].snap.reservoirs

\* ---------------------------------------------------------- claims: Material
\* The categories that need a secondary code, the form field that carries it and
\* the lookup table it must belong to.
WithSecondaryCode ==
    {MaterialTypeSeedCode, MaterialTypeAgrochemicalCode, MaterialTypeSeedingContainerCode}
SecondaryField(category) ==
    CASE category = MaterialTypeSeedCode -> "plant_type"
      [] category = MaterialTypeAgrochemicalCode -> "chemical_type"
      [] category = MaterialTypeSeedingContainerCode -> "container_type"
SecondaryKnown(in) ==
    CASE in.type = MaterialTypeSeedCode -> in.plantType \in PlantTypes
      [] in.type = MaterialTypeAgrochemicalCode -> in.chemicalType \in ChemicalTypes
      [] in.type = MaterialTypeSeedingContainerCode -> in.containerType \in ContainerTypes
\* Nothing was constructed, saved or recorded by the request in slot p.
NothingConstructed(p) ==
    /\ ~proc[p].createCalled /\ ~proc[p].built
    /\ proc[p].material = ZeroMaterial /\ proc[p].records = << >>
    /\ Calls(p) = << >>
    /\ Unchanged(p)

\* C11: a SaveMaterial request (its quantity and expiration date accepted) with a
\* category that needs a secondary code, and a secondary code its lookup table does
\* not hold, fails with INVALID_OPTION naming the secondary field; CreateMaterial is
\* not called, MaterialRepo.Save is not issued and no transition record is produced.
C11_SecondaryCodeRejected ==
    \A p \in Procs :
        (Done(p) /\ proc[p].h = "SaveMaterial" /\ proc[p].in.type \in WithSecondaryCode
                 /\ ~SecondaryKnown(proc[p].in)) =>
            /\ proc[p].err = Err("INVALID_OPTION", SecondaryField(proc[p].in.type))
            /\ proc[p].mt = NoMaterialType
            /\ NothingConstructed(p)

\* C11 witness: an agrochemical with an unknown chemical type and a well formed
\* expiration date.
C11_Witness ==
    /\ Done("h1") /\ proc["h1"].h = "SaveMaterial"
    /\ proc["h1"].in.type = MaterialTypeAgrochemicalCode /\ proc["h1"].in.chemicalType = "??"
    /\ proc["h1"].in.expirationDate = "2026-12-31"

\* C12 (as claimed): a SaveMaterial request whose category is none of the seven
\* fails with INVALID_OPTION naming the category field, CreateMaterial is not called
\* and nothing is saved.
C12_UnknownCategoryRejected ==
    \A p \in Procs :
        (proc[p].h = "SaveMaterial" /\ proc[p].stage # "validate"
                 /\ proc[p].in.type \notin MaterialTypeCodes) =>
            /\ Done(p) /\ proc[p].err = Err("INVALID_OPTION", "type")
            /\ NothingConstructed(p)

\* The Material a successful SaveMaterial has stored.
StoredMaterial(p) == CHOOSE m \in materialStore : m.UID = proc[p].material.UID

\* C13 (as claimed): the Material a successful SaveMaterial has stored has each
\* optional field unset when its raw input is empty and set to the supplied value
\* otherwise; is_expense "false" gives isExpense set to false, "true" set to true.
C13_OptionalFields ==
    \A p \in Procs :
        (Done(p) /\ proc[p].h = "SaveMaterial" /\ proc[p].err = NoError) =>
            LET m == StoredMaterial(p)
                in == proc[p].in
            IN  /\ m.expirationDate = IF in.expirationDate = "" THEN Nil(NoDate)
                                      ELSE Ptr(ParseDate(in.expirationDate).value)
                /\ m.notes = IF in.notes = "" THEN Nil("") ELSE Ptr(in.notes)
                /\ m.producedBy = IF in.producedBy = "" THEN Nil("") ELSE Ptr(in.producedBy)
                /\ m.isExpense = IF in.isExpense = "" THEN Nil(FALSE)
                                 ELSE Ptr(in.isExpense = "true")

\* C14 (as claimed): every stored Material is the replay, in creation order, of its
\* transition records: one MaterialCreated followed by *Changed records.
C14_StateIsFoldOfLog ==
    \A m \in materialStore :
        LET records == RecordsOf(materialLog, m.UID)
        IN  /\ Len(records) >= 1 /\ records[1].kind = "MaterialCreated"
            /\ \A i \in 2..Len(records) : records[i].kind \in MaterialChangedKinds
            /\ FoldRecords(ZeroMaterial, records) = m

\* C15: a SaveMaterial request (its quantity accepted) whose expiration-date text is
\* not empty and not a date fails with PARSE_FAILED(expiration_date) before the
\* category is looked at: no type is resolved, no Material is constructed and
\* nothing is saved.
C15_MalformedExpirationDate ==
    \A p \in Procs :
        (Done(p) /\ proc[p].h = "SaveMaterial" /\ proc[p].in.expirationDate # ""
                 /\ ~ParseDate(proc[p].in.expirationDate).ok) =>
            /\ proc[p].err = Err("PARSE_FAILED", "expiration_date")
            /\ proc[p].stage = "validate"
            /\ proc[p].in.type = "" /\ proc[p].mt = NoMaterialType
            /\ NothingConstructed(p)

\* C15 witness: the expiration date is given day first.
C15_Witness ==
    /\ Done("h1") /\ proc["h1"].h = "SaveMaterial"
    /\ proc["h1"].in.expirationDate = "31/12/2026" /\ proc["h1"].in.quantity = "10"

\* C16 (as claimed): a SaveMaterial request whose quantity text is not a number
\* fails with PARSE_FAILED on the field quantity, and nothing is constructed or saved.
C16_MalformedQuantity ==
    \A p \in Procs :
        (Done(p) /\ proc[p].h = "SaveMaterial" /\ ~ParseFloat(proc[p].in.quantity).ok) =>
            /\ proc[p].err = Err("PARSE_FAILED", "quantity")
            /\ NothingConstructed(p)

\* ------------------------------------------------- claims: Reservoir and Farm
\* The Farm a request names, in a set of Farms.
FarmIn(p, farms) == CHOOSE f \in farms : f.UID = proc[p].in.id
\* The water source a SaveReservoir request asks for.
RequestedWaterSource(in) ==
    IF in.type = BucketType
    THEN [type |-> BucketType, capacity |-> ParseFloat(in.capacity).value, volume |-> 0]
    ELSE [type |-> TapType, capacity |-> 0, volume |-> 0]

C18_WaterSourceFixed ==
    /\ [](\A r \in reservoirStore : r.waterSource.type \in {BucketType, TapType})
    /\ [][\A r \in reservoirStore : \A r2 \in reservoirStore' :
              (r2.UID = r.UID) => (r2.waterSource = r.waterSource)]_vars

\* C18 witness: SaveArea has saved again a Reservoir that has a bucket.
C18_Witness ==
    /\ Done("h1") /\ proc["h1"].h = "SaveArea" /\ proc["h1"].err = NoError
    /\ proc["h1"].reservoir \in reservoirStore
    /\ proc["h1"].reservoir.waterSource.type = BucketType

\* C20: a handler issues FarmRepo.Save last, after the Saves of the children, each
\* of which succeeded; and in every state, those reached through failed Saves
\* included, every Reservoir/Area id mirrored in a stored Farm is the id of a stored
\* Reservoir/Area.
C20_ReferentialIntegrity ==
    /\ \A p \in Procs : \A i, j \in 1..Len(Calls(p)) :
          (i < j /\ Calls(p)[i].op = "Save" /\ Calls(p)[j].op = "Save") =>
              /\ Calls(p)[i].repo # "FarmRepo"
              /\ Calls(p)[i].status = "ok"
    /\ \A f \in farmStore :
          /\ SeqIds(f.reservoirs) \subseteq {r.UID : r \in reservoirStore}
          /\ SeqIds(f.areas) \subseteq {a.UID : a \in areaStore}

\* C20 witness: a Save has failed, and a stored Farm mirrors a Reservoir and an Area.
C20_Witness ==
    /\ repoFailed /\ \E p \in Procs : \E i \in 1..Len(Calls(p)) :
                        Calls(p)[i].op = "Save" /\ Calls(p)[i].status = "error"
    /\ \E f \in farmStore : Len(f.reservoirs) > 0 /\ Len(f.areas) > 0

\* ------------------------------------------------------ claims: concurrency
\* Two requests that ran at the same time.
Overlap(p, q) == p \in proc[q].overlaps \/ q \in proc[p].overlaps
\* The note an add-note request has added to its copy of the child: ids are drawn
\* in increasing order, so it is the one with the largest id.
NewNote(p) == CHOOSE n \in ChildOf(p).notes : \A m \in ChildOf(p).notes : m.id <= n.id
\* The effect of a successful note request is in the stored child: the added note
\* is there (unless request q has removed it), the removed note is not.
EffectStored(p, q) ==
    IF proc[p].h \in AddNoteHandlers
    THEN \/ NewNote(p) \in ChildIn(p, Tables).notes
         \/ proc[q].h \in RemoveNoteHandlers /\ proc[q].in.noteId = NewNote(p).id
    ELSE proc[p].in.noteId \notin NoteIdsOf(ChildIn(p, Tables))

\* C19 (as claimed): when two note handlers that ran at the same time have both
\* completed successfully (no repository call having failed), the stored children
\* hold the effect of both requests and every mirror in a stored Farm equals the
\* stored child.
C19_NoLostUpdate ==
    \A p, q \in Procs :
        (p # q /\ Overlap(p, q) /\ ~repoFailed
              /\ Done(p) /\ proc[p].h \in NoteHandlers /\ proc[p].err = NoError
              /\ Done(q) /\ proc[q].h \in NoteHandlers /\ proc[q].err = NoError) =>
            /\ EffectStored(p, q)
            /\ \A f \in farmStore :
                  /\ \A i \in 1..Len(f.reservoirs) : f.reservoirs[i] \in reservoirStore
                  /\ \A i \in 1..Len(f.areas) : f.areas[i] \in areaStore

\* C21 (as claimed): when SaveArea and a note request on the Reservoir it names ran
\* at the same time and both have completed successfully (no repository call having
\* failed), the stored Reservoir is the one the note handler wrote: SaveArea's
\* re-save of the Reservoir it loaded has not put the older notes back.
C21_ResaveKeepsNotes ==
    \A p, q \in Procs :
        (Overlap(p, q) /\ ~repoFailed
              /\ Done(p) /\ proc[p].h = "SaveArea" /\ proc[p].err = NoError
              /\ Done(q) /\ proc[q].h \in NoteHandlers /\ OnReservoir(q)
              /\ proc[q].err = NoError /\ proc[q].in.id = proc[p].in.reservoirId) =>
            /\ proc[q].reservoir \in reservoirStore
            /\ ChildIn(q, Tables).notes = proc[q].reservoir.notes

====
